---- MODULE Spec2Model ----
(***************************************************************************)
(* Model of the cockpit pane manager (src/src/manager.rs) together with    *)
(* the parts of pane.rs, pty.rs and arrows.rs its operations call.          *)
(*                                                                         *)
(* Conventions.                                                            *)
(*   Option<T>      : <<>> is None, <<v>> is Some(v).                      *)
(*   HashMap<K, V>  : `panes` is the set of its keys, `cached_areas` a     *)
(*                    function.  Rust leaves the iteration order of a map  *)
(*                    unspecified; it is fixed while the map is not        *)
(*                    modified.  `panes_iter` holds the order of `panes`   *)
(*                    from the first iteration that observes it until the  *)
(*                    next insertion; the order of `cached_areas`, which   *)
(*                    is rebuilt before every use, is chosen where it is   *)
(*                    iterated.                                            *)
(*   [T; n], Vec<T> : sequences; Rust index i is TLA+ index i + 1.         *)
(***************************************************************************)
EXTENDS Integers, Sequences, FiniteSets, TLC

\* ------------------------------------------------------------------ bounds
\* Highest id the atomic counter may hand out in a run.
MaxId == 4
\* Highest id handed out in the runs of the focus operations (SpecFocus).
MaxFocusId == 3
\* Highest id handed out in the runs of the input path (SpecInput).
MaxInputId == 2
\* Number of byte vectors accepted by the input channels in a run.
MaxSends == 2
\* ids the monitor specification hands out
MaxMonitorId == 2
\* ids the layout specification hands out
MaxLayoutId == 2
\* longest Vec the poll specification lets a poll_events call build
MaxPollVec == 257
\* widest terminal of the widths specification
MaxGridWidth == 11
\* highest pane id in the layout trees given to LayoutCalculator
MaxTreeId == 3
\* byte vectors the host sends in the full-queue specification: enough to fill
\* the input channel and send two more
MaxPressureSends == 258

\* --------------------------------------------------------- program constants
MAX_PANES_LIMIT == 4
INPUT_QUEUE_CAPACITY == 256
EVENT_QUEUE_CAPACITY == 256
ARROW_WIDTH == 5
ARROW_HEIGHT == 3
U16 == 65536

\* ------------------------------------------------------------------- inputs
\* Values of ManagerConfig.max_panes the host may request.
RequestedMaxPanes == {2, 4, 7}

Rect(x, y, w, h) == [x |-> x, y |-> y, width |-> w, height |-> h]

\* Rect::default()
ZeroRect == Rect(0, 0, 0, 0)

\* Terminal sizes the host reports (the second has a width not divisible by 8).
TerminalSizes == {Rect(0, 0, 80, 20), Rect(0, 0, 43, 11)}

None == <<>>
Some(v) == <<v>>

VARIABLES
    max_panes,            \* config.max_panes
    panes,                \* keys of the panes HashMap
    panes_iter,           \* Option: iteration order of panes, once observed
    layout,               \* Option<Layout>
    focused,              \* Option<PaneId>
    next_id,              \* AtomicU64 counter
    terminal_size,        \* Option<Rect>
    cached_areas,         \* HashMap<PaneId, Rect>
    pane_order,           \* Vec<PaneId>
    sub_pane_areas,       \* Vec<Rect>
    empty_pane_areas,     \* Vec<(usize, Rect)>
    expanded_positions,   \* [bool; 4]
    horizontal_expanded,  \* [Option<bool>; 2]
    pty_size,             \* size last given to each live pane's PTY master
    input_q,              \* per pane: contents of the input channel (mpsc, 256)
    writer_running,       \* per pane: the writer task still holds input_rx
    pty_written,          \* per pane: byte vectors the writer wrote to the PTY
    sends,                \* number of input calls made so far
    pane_state,           \* per pane: the value of the state watch channel
    monitor,              \* per pane: where the monitor task is, and its wait result
    reader_running,       \* per pane: the reader task has not left its loop
    event_q,              \* contents of the event channel (mpsc, 256)
    polled,               \* Exited / Crashed events in the Vec the last poll_events returned
    poll_vec,             \* Option: the Vec a poll_events call in progress has built so far
    reader_pc,            \* per pane: where the reader task is in its loop, and the chunk it holds
    screen,               \* per pane: the RwLock<vt100::Parser>: its guards and what was processed
    snapshot,             \* Option: the copy a screen_snapshot call in progress has taken
    last                  \* the last call of the host and what it returned

layoutVars == <<layout, cached_areas, sub_pane_areas, empty_pane_areas, pty_size>>
expansionVars == <<expanded_positions, horizontal_expanded>>
registryVars == <<panes, panes_iter, pane_order, next_id>>
ioVars == <<input_q, writer_running, pty_written, sends>>
screenVars == <<reader_pc, screen, snapshot>>
workerVars == <<pane_state, monitor, reader_running, event_q, polled, poll_vec, screenVars>>
vars == <<max_panes, panes, panes_iter, layout, focused, next_id, terminal_size, cached_areas,
          pane_order, sub_pane_areas, empty_pane_areas, expanded_positions,
          horizontal_expanded, pty_size, input_q, writer_running, pty_written,
          sends, pane_state, monitor, reader_running, event_q, polled, poll_vec,
          reader_pc, screen, snapshot, last>>

\* ------------------------------------------------------------------ helpers
Range(s) == {s[i] : i \in DOMAIN s}

Min(a, b) == IF a < b THEN a ELSE b

\* u16::saturating_sub
SatSub(a, b) == IF a > b THEN a - b ELSE 0

\* u16 subtraction of a release build (wrapping)
Sub16(a, b) == (a - b + U16) % U16

\* All orders in which a HashMap holding the keys S can be iterated.
RECURSIVE IterationOrders(_)
IterationOrders(S) ==
    IF S = {} THEN {<<>>}
    ELSE UNION {{Append(rest, k) : rest \in IterationOrders(S \ {k})} : k \in S}

\* The iteration order of a map with at least two keys, as observed; a map
\* with fewer keys has only one order.
Observed(order) == IF Len(order) >= 2 THEN Some(order) ELSE None

\* HashMap::remove(&pane_id): the other keys stay where they are, so an
\* order observed before still holds for them.
RemoveKey(iter, pane_id) ==
    IF iter = None THEN None
    ELSE Observed(SelectSeq(iter[1], LAMBDA id : id # pane_id))

\* The orders in which panes.keys() can yield the keys now.
KeysOrders(keys, iter) == IF iter = None THEN IterationOrders(keys) ELSE {iter[1]}

\* A close_pane that forgets pane_order.
RetainNothing(order, pane_id) == order

\* Vec::retain(|&id| id != pane_id)
Retain(order, pane_id) == SelectSeq(order, LAMBDA id : id # pane_id)

\* (f32::from(h) * 0.7).round() as u16; exact for every u16 h.
PanesHeight(h) == (7 * h + 5) \div 10

\* ------------------------------------------------------------------- layout
\* Sub-panes that keep their eighth of the width under horizontal expansion.
SubPaneRectEighths(i, area, exp, hexp) ==
    LET position == i \div 2
        row == position \div 2
        quarter_width == area.width \div 4
        half_width == area.width \div 2
        eighth_width == area.width \div 8
        h_expanded == hexp[row + 1]
        is_hidden == IF h_expanded = None THEN FALSE
                     ELSE IF h_expanded = Some(TRUE) THEN position = 1 \/ position = 3
                     ELSE position = 0 \/ position = 2
        local_idx == i % 2
        base_x == IF row = 0 THEN area.x ELSE area.x + half_width
    IN  IF exp[position + 1] THEN ZeroRect
        ELSE IF is_hidden THEN ZeroRect
        ELSE IF h_expanded = None
             THEN Rect(area.x + i * eighth_width, area.y,
                       IF i = 7 THEN area.width - 7 * eighth_width ELSE eighth_width,
                       area.height)
             ELSE Rect(base_x + local_idx * eighth_width, area.y, eighth_width, area.height)

\* PaneManager::recalculate_sub_panes: the eight sub-pane rectangles.
SubPaneRect(i, area, exp, hexp) ==
    LET position == i \div 2
        row == position \div 2
        quarter_width == area.width \div 4
        half_width == area.width \div 2
        eighth_width == area.width \div 8
        h_expanded == hexp[row + 1]
        is_hidden == IF h_expanded = None THEN FALSE
                     ELSE IF h_expanded = Some(TRUE) THEN position = 1 \/ position = 3
                     ELSE position = 0 \/ position = 2
        local_idx == i % 2
        base_x == IF row = 0 THEN area.x ELSE area.x + half_width
    IN  IF exp[position + 1] THEN ZeroRect
        ELSE IF is_hidden THEN ZeroRect
        ELSE IF h_expanded = None
             THEN Rect(area.x + i * eighth_width, area.y,
                       IF i = 7 THEN area.width - 7 * eighth_width ELSE eighth_width,
                       area.height)
             ELSE Rect(base_x + local_idx * quarter_width, area.y, quarter_width, area.height)

\* Sub-panes computed without looking at the vertical expansion.
recalculate_sub_panes_all_visible(area, exp, hexp) ==
    [k \in 1..8 |-> SubPaneRect(k - 1, area, [p \in 1..4 |-> FALSE], hexp)]

\* PaneManager::recalculate_sub_panes
recalculate_sub_panes(area, exp, hexp) ==
    [k \in 1..8 |-> SubPaneRect(k - 1, area, exp, hexp)]

\* PaneManager::recalculate_layout, first half: the sub-pane strip.
SubPanesArea(full_area) ==
    LET panes_height == PanesHeight(full_area.height)
        sub_panes_height == SatSub(full_area.height, panes_height)
    IN  Rect(full_area.x, full_area.y + SatSub(panes_height, 1),
             full_area.width, sub_panes_height + 1)

\* Four slots of a quarter each, the rounding remainder left over.
AllAreasEqualQuarters(full_area, exp, hexp) ==
    LET panes_height == PanesHeight(full_area.height)
        quarter_width == full_area.width \div 4
        half_width == full_area.width \div 2
        w01 == IF hexp[1] = None THEN <<quarter_width, quarter_width>>
               ELSE IF hexp[1] = Some(TRUE) THEN <<half_width, 0>>
               ELSE <<0, half_width>>
        w23 == IF hexp[2] = None
               THEN <<quarter_width, quarter_width>>
               ELSE IF hexp[2] = Some(TRUE) THEN <<half_width, 0>>
               ELSE <<0, half_width>>
        x_1 == full_area.x + w01[1]
        x_2 == full_area.x + half_width
        x_3 == full_area.x + half_width + w23[1]
        Height(p) == IF exp[p + 1] THEN full_area.height ELSE panes_height
    IN  << Rect(full_area.x, full_area.y, w01[1], Height(0)),
           Rect(x_1, full_area.y, w01[2], Height(1)),
           Rect(x_2, full_area.y, w23[1], Height(2)),
           Rect(x_3, full_area.y, w23[2], Height(3)) >>

\* PaneManager::recalculate_layout: the four primary slot rectangles.
AllAreas(full_area, exp, hexp) ==
    LET panes_height == PanesHeight(full_area.height)
        quarter_width == full_area.width \div 4
        half_width == full_area.width \div 2
        w01 == IF hexp[1] = None THEN <<quarter_width, quarter_width>>
               ELSE IF hexp[1] = Some(TRUE) THEN <<half_width, 0>>
               ELSE <<0, half_width>>
        w23 == IF hexp[2] = None
               THEN <<quarter_width, full_area.width - quarter_width * 3>>
               ELSE IF hexp[2] = Some(TRUE) THEN <<half_width, 0>>
               ELSE <<0, half_width>>
        x_1 == full_area.x + w01[1]
        x_2 == full_area.x + half_width
        x_3 == full_area.x + half_width + w23[1]
        Height(p) == IF exp[p + 1] THEN full_area.height ELSE panes_height
    IN  << Rect(full_area.x, full_area.y, w01[1], Height(0)),
           Rect(x_1, full_area.y, w01[2], Height(1)),
           Rect(x_2, full_area.y, w23[1], Height(2)),
           Rect(x_3, full_area.y, w23[2], Height(3)) >>

\* An assignment loop that hands out the slots from the right.
AssignAreasFromRight(order, all_areas) ==
    [id \in {order[i] : i \in 1..Min(Len(order), 4)} |->
        all_areas[5 - CHOOSE i \in 1..Min(Len(order), 4) :
                        /\ order[i] = id
                        /\ \A j \in 1..Min(Len(order), 4) : order[j] = id => j <= i]]

\* PaneManager::recalculate_layout: the assignment loop, live panes.
AssignAreas(order, all_areas) ==
    [id \in {order[i] : i \in 1..Min(Len(order), 4)} |->
        all_areas[CHOOSE i \in 1..Min(Len(order), 4) :
                    /\ order[i] = id
                    /\ \A j \in 1..Min(Len(order), 4) : order[j] = id => j <= i]]

\* An assignment loop that stores the slot's index instead of its number.
EmptySlotsZeroBased(order, all_areas) ==
    LET n == Min(Len(order), 4)
    IN  [k \in 1..(4 - n) |-> [slot_index |-> n + k - 1, rect |-> all_areas[n + k]]]

\* PaneManager::recalculate_layout: the assignment loop, empty slots.
EmptySlots(order, all_areas) ==
    LET n == Min(Len(order), 4)
    IN  [k \in 1..(4 - n) |-> [slot_index |-> n + k, rect |-> all_areas[n + k]]]

\* Layout::single, Layout::hsplit_equal (ratio 0.5 kept in percent, clamped).
Single(id) == [kind |-> "Single", id |-> id]

HSplitEqual(first, second) ==
    [kind |-> "Split", direction |-> "Horizontal", ratio |-> 50,
     first |-> first, second |-> second]

\* Layout::hsplit, Layout::vsplit: the ratio, in percent, is clamped to 0.1 .. 0.9.
Split(direction, ratio, first, second) ==
    [kind |-> "Split", direction |-> direction,
     ratio |-> IF ratio < 10 THEN 10 ELSE IF ratio > 90 THEN 90 ELSE ratio,
     first |-> first, second |-> second]

\* Layout::pane_ids, as a set.
RECURSIVE pane_ids(_)
pane_ids(tree) ==
    IF tree.kind = "Single" THEN {tree.id}
    ELSE pane_ids(tree.first) \cup pane_ids(tree.second)

\* A split that gives the first child the extent times the ratio, rounded down.
split_area_truncating(area, direction, ratio) ==
    IF direction = "Horizontal"
    THEN LET first_height == (area.height * ratio) \div 100
             second_height == SatSub(area.height, first_height)
         IN  <<Rect(area.x, area.y, area.width, first_height),
               Rect(area.x, Min(area.y + first_height, U16 - 1), area.width, second_height)>>
    ELSE LET first_width == (area.width * ratio) \div 100
             second_width == SatSub(area.width, first_width)
         IN  <<Rect(area.x, area.y, first_width, area.height),
               Rect(Min(area.x + first_width, U16 - 1), area.y, second_width, area.height)>>

\* LayoutCalculator::split_area: (f32::from(extent) * ratio).round() as u16
\* for the first child, saturating_sub and saturating_add for the second.
split_area(area, direction, ratio) ==
    IF direction = "Horizontal"
    THEN LET first_height == (area.height * ratio + 50) \div 100
             second_height == SatSub(area.height, first_height)
         IN  <<Rect(area.x, area.y, area.width, first_height),
               Rect(area.x, Min(area.y + first_height, U16 - 1), area.width, second_height)>>
    ELSE LET first_width == (area.width * ratio + 50) \div 100
             second_width == SatSub(area.width, first_width)
         IN  <<Rect(area.x, area.y, first_width, area.height),
               Rect(Min(area.x + first_width, U16 - 1), area.y, second_width, area.height)>>

\* LayoutCalculator::calculate_areas / calculate_recursive: the HashMap after
\* the inserts of the first subtree and then of the second, a later insert
\* of the same id replacing the earlier one.
RECURSIVE calculate_areas(_, _)
calculate_areas(tree, area) ==
    IF tree.kind = "Single" THEN tree.id :> area
    ELSE LET halves == split_area(area, tree.direction, tree.ratio)
         IN  calculate_areas(tree.second, halves[2]) @@ calculate_areas(tree.first, halves[1])

\* PaneManager::recalculate_layout: the layout tree of the live panes.
LayoutTree(order) ==
    IF Len(order) = 1 THEN Some(Single(order[1]))
    ELSE IF Len(order) = 2 THEN Some(HSplitEqual(Single(order[1]), Single(order[2])))
    ELSE IF Len(order) = 3
         THEN Some(HSplitEqual(Single(order[1]),
                               HSplitEqual(Single(order[2]), Single(order[3]))))
    ELSE IF Len(order) = 4
         THEN Some(HSplitEqual(HSplitEqual(Single(order[1]), Single(order[2])),
                               HSplitEqual(Single(order[3]), Single(order[4]))))
    ELSE None

\* PaneSize::new
PaneSize(rows, cols) == [rows |-> rows, cols |-> cols]

\* PaneManager::resize_all_panes: the size each pane of cached_areas is given.
InnerSize(area) == PaneSize(SatSub(area.height, 2), SatSub(area.width, 2))

\* PaneManager::calculate_initial_pane_size
calculate_initial_pane_size(ts, pane_count) ==
    IF ts # None
    THEN LET area_height == PanesHeight(ts[1].height)
             area_width == ts[1].width
             future_pane_count == pane_count + 1
         IN  IF future_pane_count = 1
             THEN PaneSize(SatSub(area_height, 2), SatSub(area_width, 2))
             ELSE IF future_pane_count = 2
             THEN PaneSize(SatSub(area_height, 2), Sub16(area_width \div 2, 1))
             ELSE PaneSize(SatSub(area_height, 2), Sub16(area_width \div 4, 1))
    ELSE PaneSize(24, 80)

\* A fan-out that leaves the PTY of every pane at the size it had.
RecalculateWithoutResize(keys, order, exp, hexp, ts, sizes) ==
    /\ pty_size' = [id \in keys |-> sizes[id]]
    /\ IF ts = None
       THEN UNCHANGED <<layout, cached_areas, sub_pane_areas, empty_pane_areas>>
       ELSE LET all_areas == AllAreas(ts[1], exp, hexp)
            IN  /\ sub_pane_areas' = recalculate_sub_panes(SubPanesArea(ts[1]), exp, hexp)
                /\ cached_areas' = AssignAreas(order, all_areas)
                /\ empty_pane_areas' = EmptySlots(order, all_areas)
                /\ layout' = LayoutTree(order)

\* recalculate_layout followed by resize_all_panes, as every mutating
\* operation runs them: the new values of the layout variables for the new
\* registry `keys`/`order`, expansion state and terminal size.  `sizes` are the
\* PTY sizes before the fan-out (a new pane carries its initial size).
RecalculateAndResize(keys, order, exp, hexp, ts, sizes) ==
    IF ts = None
    THEN /\ UNCHANGED <<layout, cached_areas, sub_pane_areas, empty_pane_areas>>
         /\ pty_size' = [id \in keys |->
                            IF id \in DOMAIN cached_areas
                            THEN InnerSize(cached_areas[id]) ELSE sizes[id]]
    ELSE LET all_areas == AllAreas(ts[1], exp, hexp)
             areas == AssignAreas(order, all_areas)
         IN  /\ sub_pane_areas' = recalculate_sub_panes(SubPanesArea(ts[1]), exp, hexp)
             /\ cached_areas' = areas
             /\ empty_pane_areas' = EmptySlots(order, all_areas)
             /\ layout' = LayoutTree(order)
             /\ pty_size' = [id \in keys |->
                                IF id \in DOMAIN areas
                                THEN InnerSize(areas[id]) ELSE sizes[id]]

\* The record kept in `last`: the operation, its integer argument (0 when it
\* has none), the bytes handed to the input path (<<>> when none) and the
\* value returned.
Called(op, arg, res) == [op |-> op, arg |-> arg, data |-> <<>>, res |-> res]

CalledWith(op, data, res) == [op |-> op, arg |-> 0, data |-> data, res |-> res]

\* ------------------------------------------------------------------ initial
\* PaneManager::with_config: the clamp of max_panes.
ClampMaxPanes(requested) == Min(requested, MAX_PANES_LIMIT)

InitManager ==
    /\ max_panes \in {ClampMaxPanes(r) : r \in RequestedMaxPanes}
    /\ panes = {}
    /\ panes_iter = None
    /\ layout = None
    /\ focused = None
    /\ next_id = 1
    /\ terminal_size = None
    /\ cached_areas = <<>>
    /\ pane_order = <<>>
    /\ sub_pane_areas = <<>>
    /\ empty_pane_areas = <<>>
    /\ expanded_positions = <<FALSE, FALSE, FALSE, FALSE>>
    /\ horizontal_expanded = <<None, None>>
    /\ pty_size = <<>>
    /\ input_q = <<>>
    /\ writer_running = <<>>
    /\ pty_written = <<>>
    /\ sends = 0
    /\ pane_state = <<>>
    /\ monitor = <<>>
    /\ reader_running = <<>>
    /\ event_q = <<>>
    /\ polled = <<>>
    /\ poll_vec = None
    /\ reader_pc = <<>>
    /\ screen = <<>>
    /\ snapshot = None

Init == InitManager /\ last = Called("new", 0, "Ok")

\* ------------------------------------------------------------ input encoder
\* KeyEvent: a key code and the CONTROL / ALT modifier bits.  A Char carries
\* its Unicode scalar value, F its number.
Key(code, n, ctrl, alt) == [code |-> code, n |-> n, ctrl |-> ctrl, alt |-> alt]

\* char::to_ascii_lowercase
ToAsciiLowercase(c) == IF c >= 65 /\ c <= 90 THEN c + 32 ELSE c

\* `c as u8`
AsU8(c) == c % 256

\* char::to_string().into_bytes() for scalar values below U+0800
Utf8(c) == IF c < 128 THEN <<c>> ELSE <<192 + (c \div 64), 128 + (c % 64)>>

\* key_to_bytes, the F(n) arm
FunctionKeyBytes(n) ==
    IF n = 1 THEN <<27, 79, 80>>
    ELSE IF n = 2 THEN <<27, 79, 81>>
    ELSE IF n = 3 THEN <<27, 79, 82>>
    ELSE IF n = 4 THEN <<27, 79, 83>>
    ELSE IF n = 5 THEN <<27, 91, 49, 53, 126>>
    ELSE IF n = 6 THEN <<27, 91, 49, 55, 126>>
    ELSE IF n = 7 THEN <<27, 91, 49, 56, 126>>
    ELSE IF n = 8 THEN <<27, 91, 49, 57, 126>>
    ELSE IF n = 9 THEN <<27, 91, 50, 48, 126>>
    ELSE IF n = 10 THEN <<27, 91, 50, 49, 126>>
    ELSE IF n = 11 THEN <<27, 91, 50, 51, 126>>
    ELSE IF n = 12 THEN <<27, 91, 50, 52, 126>>
    ELSE <<>>

\* key_to_bytes
key_to_bytes(key) ==
    IF key.code = "Char"
    THEN IF key.ctrl
         THEN LET code == AsU8(ToAsciiLowercase(key.n))
              IN  IF code >= 97 /\ code <= 122 THEN <<code - 97 + 1>> ELSE <<>>
         ELSE IF key.alt THEN <<27, AsU8(key.n)>>
         ELSE Utf8(key.n)
    ELSE IF key.code = "Enter" THEN <<13>>
    ELSE IF key.code = "Tab" THEN <<9>>
    ELSE IF key.code = "Backspace" THEN <<127>>
    ELSE IF key.code = "Esc" THEN <<27>>
    ELSE IF key.code = "Up" THEN <<27, 91, 65>>
    ELSE IF key.code = "Down" THEN <<27, 91, 66>>
    ELSE IF key.code = "Right" THEN <<27, 91, 67>>
    ELSE IF key.code = "Left" THEN <<27, 91, 68>>
    ELSE IF key.code = "Home" THEN <<27, 91, 72>>
    ELSE IF key.code = "End" THEN <<27, 91, 70>>
    ELSE IF key.code = "PageUp" THEN <<27, 91, 53, 126>>
    ELSE IF key.code = "PageDown" THEN <<27, 91, 54, 126>>
    ELSE IF key.code = "Delete" THEN <<27, 91, 51, 126>>
    ELSE IF key.code = "Insert" THEN <<27, 91, 50, 126>>
    ELSE IF key.code = "F" THEN FunctionKeyBytes(key.n)
    ELSE <<>>

\* Keys the host routes: Enter, Ctrl+'1' and F13 (both unbound), and CapsLock
\* (no arm of its own).
RoutedKeys ==
    { Key("Enter", 0, FALSE, FALSE), Key("Char", 49, TRUE, FALSE),
      Key("F", 13, FALSE, FALSE), Key("CapsLock", 0, FALSE, FALSE) }

\* Byte slices the host passes to send_input: b"hi".
Payloads == { <<104, 105>> }

\* Pane ids the host may name in a call: every id the counter can hand out
\* up to limit and one it never does.
PaneIds(limit) == 1..(limit + 1)

\* ------------------------------------------------------------ hit testing
\* The containment test of PaneManager::pane_at_position.
Contains(rect, x, y) ==
    /\ x >= rect.x /\ x < rect.x + rect.width
    /\ y >= rect.y /\ y < rect.y + rect.height

\* The arrow bounds test shared by the three *_arrow_at_position functions.
ArrowHit(x, y, area, is_left) ==
    LET base_y == area.y + SatSub(area.height, 1 + ARROW_HEIGHT)
        base_x == IF is_left THEN area.x + 1
                  ELSE area.x + SatSub(area.width, 1 + ARROW_WIDTH)
    IN  /\ x >= base_x /\ x < base_x + ARROW_WIDTH
        /\ y >= base_y /\ y < base_y + ARROW_HEIGHT

\* arrows::up_arrow_at_position; pane_areas is a sequence of [id, rect].
up_arrow_at_position(x, y, pane_areas, exp) ==
    LET hits == {idx \in 0..(Len(pane_areas) - 1) :
                    /\ idx < 4
                    /\ exp[idx + 1]
                    /\ ArrowHit(x, y, pane_areas[idx + 1].rect, idx = 0 \/ idx = 2)}
    IN  IF hits = {} THEN None
        ELSE Some(CHOOSE idx \in hits : \A other \in hits : idx <= other)

\* The first entry of arrow_configs (in order) whose sub-pane exists, is not
\* empty and is hit; entries are <<sub-pane index, position, is_left>>.
FirstArrow(x, y, subs, arrow_configs) ==
    LET hits == {k \in 1..Len(arrow_configs) :
                    /\ arrow_configs[k][1] + 1 \in DOMAIN subs
                    /\ subs[arrow_configs[k][1] + 1].width # 0
                    /\ subs[arrow_configs[k][1] + 1].height # 0
                    /\ ArrowHit(x, y, subs[arrow_configs[k][1] + 1], arrow_configs[k][3])}
    IN  IF hits = {} THEN None
        ELSE Some(arrow_configs[CHOOSE k \in hits : \A other \in hits : k <= other][2])

\* arrows::down_arrow_at_position followed by ArrowPosition::pane_position
down_arrow_at_position(x, y, subs) ==
    FirstArrow(x, y, subs, << <<0, 0, TRUE>>, <<3, 1, FALSE>>, <<4, 2, TRUE>>, <<7, 3, FALSE>> >>)

\* arrows::horizontal_arrow_at_position followed by
\* HorizontalArrowPosition::source_position
horizontal_arrow_at_position(x, y, subs) ==
    FirstArrow(x, y, subs, << <<1, 0, FALSE>>, <<2, 1, TRUE>>, <<5, 2, FALSE>>, <<6, 3, TRUE>> >>)

\* The vectors that collecting the entries of `areas` in iteration order and
\* Vec::sort_by_key(|(_, rect)| rect.x) can produce.  The sort is stable and
\* the iteration order arbitrary, so these are the arrangements of the
\* entries in which x never decreases: entries with equal x come in any order.
SortedByX(areas) ==
    {v \in {[k \in DOMAIN iter |-> [id |-> iter[k], rect |-> areas[iter[k]]]] :
                iter \in IterationOrders(DOMAIN areas)} :
        \A k \in 1..(Len(v) - 1) : v[k].rect.x <= v[k + 1].rect.x}

\* Mouse positions <<x, y>> the host reports.  In an 80x20 terminal:
\* <<3, 5>> and <<23, 5>> lie in primary slots 0 and 1; <<3, 17>> lies in the
\* down-arrow of sub-pane 0 and in the up-arrow of slot 0; <<16, 17>> lies in
\* the horizontal arrow of sub-pane 1.
ManagerClicks == { <<3, 5>>, <<23, 5>>, <<3, 17>>, <<16, 17>> }

\* ------------------------------------------------------- states and events
\* PaneState::Running
Running == [kind |-> "Running"]

\* PaneState::Exited { code }
Exited(code) == [kind |-> "Exited", code |-> code]

\* PaneState::Crashed { signal, error }
Crashed(signal, error) == [kind |-> "Crashed", signal |-> signal, error |-> error]

\* PaneEvent::Exited { pane_id, code }
ExitedEvent(pane_id, code) == [kind |-> "Exited", pane_id |-> pane_id, code |-> code]

\* PaneEvent::Crashed { pane_id, signal, error }
CrashedEvent(pane_id, signal, error) ==
    [kind |-> "Crashed", pane_id |-> pane_id, signal |-> signal, error |-> error]

\* PaneEvent::Output { pane_id, size }
OutputEvent(pane_id, size) == [kind |-> "Output", pane_id |-> pane_id, size |-> size]

\* ---------------------------------------------------------------- operations
\* A capacity test that is off by one.
LayoutFullOffByOne(pane_count, max) == pane_count > max

\* PaneManager::spawn: the capacity test (true = the call is refused).
LayoutFull(pane_count, max) == pane_count >= max

\* PaneManager::spawn: the auto-focus of the first pane.
FocusAfterSpawn(f, pane_id) == IF f = None THEN Some(pane_id) ELSE f

\* Errors pty::spawn_pty can return: openpty (PtyCreate), spawn_command,
\* try_clone_reader, take_writer (Pty).
SpawnPtyErrors == {"PtyCreate", "Pty"}

\* PaneManager::spawn refused because the registry is full.
SpawnRefused ==
    /\ LayoutFull(Cardinality(panes), max_panes)
    /\ last' = Called("spawn", 0, "Layout")
    /\ UNCHANGED <<workerVars, max_panes, panes, panes_iter, layout, focused, next_id, terminal_size,
                   cached_areas, pane_order, sub_pane_areas, empty_pane_areas,
                   expanded_positions, horizontal_expanded, pty_size, input_q,
                   writer_running, pty_written, sends>>

\* A spawn that pushes the id on pane_order and focuses it before it calls
\* pty::spawn_pty.
SpawnFailedAfterRegistering(limit) ==
    /\ ~LayoutFull(Cardinality(panes), max_panes)
    /\ next_id <= limit
    /\ next_id' = next_id + 1
    /\ pane_order' = Append(pane_order, next_id)
    /\ focused' = FocusAfterSpawn(focused, next_id)
    /\ \E e \in SpawnPtyErrors : last' = Called("spawn", 0, e)
    /\ UNCHANGED <<workerVars, max_panes, panes, panes_iter, layout, terminal_size,
                   cached_areas, sub_pane_areas, empty_pane_areas,
                   expanded_positions, horizontal_expanded, pty_size, input_q,
                   writer_running, pty_written, sends>>

\* PaneManager::spawn when pty::spawn_pty returns an error: the id is consumed,
\* nothing is registered.
SpawnFailed(limit) ==
    /\ ~LayoutFull(Cardinality(panes), max_panes)
    /\ next_id <= limit
    /\ next_id' = next_id + 1
    /\ \E e \in SpawnPtyErrors : last' = Called("spawn", 0, e)
    /\ UNCHANGED <<workerVars, max_panes, panes, panes_iter, layout, focused, terminal_size,
                   cached_areas, pane_order, sub_pane_areas, empty_pane_areas,
                   expanded_positions, horizontal_expanded, pty_size, input_q,
                   writer_running, pty_written, sends>>

\* spawn_pty: the parser starts empty behind a lock nobody holds, and the
\* reader task starts at the top of its loop.
NewScreen == [writer |-> FALSE, readers |-> 0, chunks |-> <<>>, partial |-> FALSE]
ReaderAtRead == [pc |-> "read", reads |-> 0, n |-> 0]

\* PaneManager::spawn, successful.
SpawnOk(limit) ==
    /\ ~LayoutFull(Cardinality(panes), max_panes)
    /\ next_id <= limit
    /\ LET pane_id == next_id
           initial_size == calculate_initial_pane_size(terminal_size, Cardinality(panes))
       IN  /\ next_id' = next_id + 1
           /\ pane_order' = Append(pane_order, pane_id)
           /\ focused' = FocusAfterSpawn(focused, pane_id)
           /\ input_q' = (pane_id :> <<>>) @@ input_q
           /\ writer_running' = (pane_id :> TRUE) @@ writer_running
           /\ pty_written' = (pane_id :> <<>>) @@ pty_written
           /\ pane_state' = (pane_id :> Running) @@ pane_state
           /\ monitor' = (pane_id :> [pc |-> "wait", result |-> None]) @@ monitor
           /\ reader_running' = (pane_id :> TRUE) @@ reader_running
           /\ reader_pc' = (pane_id :> ReaderAtRead) @@ reader_pc
           /\ screen' = (pane_id :> NewScreen) @@ screen
           /\ UNCHANGED snapshot
           /\ RecalculateAndResize(panes \cup {pane_id}, pane_order',
                                   expanded_positions, horizontal_expanded, terminal_size,
                                   (pane_id :> initial_size) @@ pty_size)
           /\ last' = Called("spawn", 0, "Ok")
           /\ panes' = panes \cup {pane_id}
           /\ panes_iter' = None
    /\ UNCHANGED <<max_panes, terminal_size, expanded_positions, horizontal_expanded, sends,
                   event_q, polled, poll_vec>>

\* A close_pane that refocuses the first remaining pane whatever was focused.
FocusAlwaysFirst(f, pane_id, order) ==
    IF order = <<>> THEN None ELSE Some(Head(order))

\* PaneManager::close_pane: the focus update.
FocusAfterClose(f, pane_id, order) ==
    IF f = Some(pane_id)
    THEN (IF order = <<>> THEN None ELSE Some(Head(order)))
    ELSE f

\* A close_pane that collapses the slot the closed pane was in.
ClosePaneCollapsesSlot(pane_id) ==
    LET collapsed == [p \in 1..4 |->
                         IF p <= Len(pane_order) /\ pane_order[p] = pane_id THEN FALSE
                         ELSE expanded_positions[p]]
    IN  /\ panes' = panes \ {pane_id}
        /\ panes_iter' = RemoveKey(panes_iter, pane_id)
        /\ pane_order' = Retain(pane_order, pane_id)
        /\ focused' = FocusAfterClose(focused, pane_id, pane_order')
        /\ expanded_positions' = collapsed
        /\ RecalculateAndResize(panes \ {pane_id}, pane_order',
                                collapsed, horizontal_expanded, terminal_size, pty_size)
        /\ last' = Called("close_pane", pane_id, "Ok")
        /\ UNCHANGED <<workerVars, max_panes, next_id, terminal_size,
                       horizontal_expanded, input_q, writer_running, pty_written, sends>>

\* PaneManager::close_pane.  abort() does not stop a task started with
\* spawn_blocking, and the host may still hold the handle spawn returned, so
\* the input channel and the workers of the pane are left as they are.
ClosePane(pane_id) ==
    /\ panes' = panes \ {pane_id}
    /\ panes_iter' = RemoveKey(panes_iter, pane_id)
    /\ pane_order' = Retain(pane_order, pane_id)
    /\ focused' = FocusAfterClose(focused, pane_id, pane_order')
    /\ RecalculateAndResize(panes \ {pane_id}, pane_order',
                            expanded_positions, horizontal_expanded, terminal_size, pty_size)
    /\ last' = Called("close_pane", pane_id, "Ok")
    /\ UNCHANGED <<workerVars, max_panes, next_id, terminal_size, expanded_positions,
                   horizontal_expanded, input_q, writer_running, pty_written, sends>>

\* PaneManager::set_focus
SetFocus(pane_id) ==
    /\ focused' = IF pane_id \in panes THEN Some(pane_id) ELSE focused
    /\ last' = Called("set_focus", 0, "Ok")
    /\ UNCHANGED <<workerVars, max_panes, panes, panes_iter, layout, next_id, terminal_size,
                   cached_areas, pane_order, sub_pane_areas, empty_pane_areas,
                   expanded_positions, horizontal_expanded, pty_size, input_q,
                   writer_running, pty_written, sends>>

\* ids.iter().position(|&id| id == current).unwrap_or(0)
PositionOrZero(ids, current) ==
    IF current \in Range(ids)
    THEN (CHOOSE i \in DOMAIN ids : ids[i] = current /\ \A j \in DOMAIN ids : ids[j] = current => i <= j) - 1
    ELSE 0

\* PaneManager::focus_next: the pane focused afterwards, ids = panes.keys().
FocusNextTarget(ids, f) ==
    LET current == IF f = None THEN ids[1] ELSE f[1]
        pos == PositionOrZero(ids, current)
        next_pos == (pos + 1) % Len(ids)
    IN  ids[next_pos + 1]

\* PaneManager::focus_prev: the pane focused afterwards, ids = panes.keys().
FocusPrevTarget(ids, f) ==
    LET current == IF f = None THEN ids[1] ELSE f[1]
        pos == PositionOrZero(ids, current)
        prev_pos == IF pos = 0 THEN Len(ids) - 1 ELSE pos - 1
    IN  ids[prev_pos + 1]

\* The record of a focus_next call: arg counts the focus_next calls made in a
\* row (a count that reached the number of panes starts again at 1), data is
\* <<focus when the row started, focus before this call>>, 0 standing for None.
FocusNextCalled ==
    LET before == IF focused = None THEN 0 ELSE focused[1]
        continuing == last.op = "focus_next" /\ last.arg < Cardinality(panes)
    IN  [op |-> "focus_next",
         arg |-> IF continuing THEN last.arg + 1 ELSE 1,
         data |-> <<IF continuing THEN last.data[1] ELSE before, before>>,
         res |-> "Ok"]

\* PaneManager::focus_next
FocusNext ==
    /\ IF panes = {}
       THEN UNCHANGED <<focused, panes_iter>>
       ELSE \E ids \in KeysOrders(panes, panes_iter) :
               /\ focused' = Some(FocusNextTarget(ids, focused))
               /\ panes_iter' = Observed(ids)
    /\ last' = FocusNextCalled
    /\ UNCHANGED <<workerVars, max_panes, panes, layout, next_id, terminal_size,
                   cached_areas, pane_order, sub_pane_areas, empty_pane_areas,
                   expanded_positions, horizontal_expanded, pty_size, input_q,
                   writer_running, pty_written, sends>>

\* PaneManager::focus_prev
FocusPrev ==
    /\ IF panes = {}
       THEN UNCHANGED <<focused, panes_iter>>
       ELSE \E ids \in KeysOrders(panes, panes_iter) :
               /\ focused' = Some(FocusPrevTarget(ids, focused))
               /\ panes_iter' = Observed(ids)
    /\ last' = Called("focus_prev", 0, "Ok")
    /\ UNCHANGED <<workerVars, max_panes, panes, layout, next_id, terminal_size,
                   cached_areas, pane_order, sub_pane_areas, empty_pane_areas,
                   expanded_positions, horizontal_expanded, pty_size, input_q,
                   writer_running, pty_written, sends>>

\* PaneManager::set_terminal_size
SetTerminalSize(size) ==
    /\ terminal_size' = Some(size)
    /\ IF terminal_size = Some(size)
       THEN UNCHANGED layoutVars
       ELSE RecalculateAndResize(panes, pane_order, expanded_positions,
                                 horizontal_expanded, Some(size), pty_size)
    /\ last' = Called("set_terminal_size", 0, "Ok")
    /\ UNCHANGED <<workerVars, max_panes, panes, panes_iter, focused, next_id, pane_order,
                   expanded_positions, horizontal_expanded, input_q,
                   writer_running, pty_written, sends>>

\* A toggle that expands a slot and never collapses it.
ToggledExpansionSetOnly(exp, position) ==
    IF position < 4 THEN [exp EXCEPT ![position + 1] = TRUE] ELSE exp

\* The expansion flags after toggle_pane_expansion(position).
ToggledExpansion(exp, position) ==
    IF position < 4 THEN [exp EXCEPT ![position + 1] = ~exp[position + 1]] ELSE exp

\* A toggle that turns the expansion off whenever the row is expanded.
ToggledRowOffFirst(current, expand_left) ==
    IF current = None THEN Some(expand_left) ELSE None

\* The per-row state machine of toggle_horizontal_expansion.
ToggledRow(current, expand_left) ==
    IF current = None THEN Some(expand_left)
    ELSE IF current[1] = expand_left THEN None
    ELSE Some(expand_left)

\* A toggle that also ends the expansion of the other row.
ToggledHorizontalResetsOtherRow(hexp, row, expand_left) ==
    IF row < 2
    THEN [r \in 1..2 |-> IF r = row + 1 THEN ToggledRow(hexp[r], expand_left) ELSE None]
    ELSE hexp

\* The row states after toggle_horizontal_expansion(row, expand_left).
ToggledHorizontal(hexp, row, expand_left) ==
    IF row < 2 THEN [hexp EXCEPT ![row + 1] = ToggledRow(hexp[row + 1], expand_left)] ELSE hexp

\* The state change of toggle_pane_expansion(position), without the call record.
DoTogglePaneExpansion(position) ==
    /\ expanded_positions' = ToggledExpansion(expanded_positions, position)
    /\ IF position < 4
       THEN RecalculateAndResize(panes, pane_order, expanded_positions',
                                 horizontal_expanded, terminal_size, pty_size)
       ELSE UNCHANGED layoutVars
    /\ UNCHANGED <<workerVars, max_panes, panes, panes_iter, focused, next_id, terminal_size, pane_order,
                   horizontal_expanded, input_q, writer_running, pty_written, sends>>

\* The state change of toggle_horizontal_expansion(row, expand_left).
DoToggleHorizontalExpansion(row, expand_left) ==
    /\ horizontal_expanded' = ToggledHorizontal(horizontal_expanded, row, expand_left)
    /\ IF row < 2
       THEN RecalculateAndResize(panes, pane_order, expanded_positions,
                                 horizontal_expanded', terminal_size, pty_size)
       ELSE UNCHANGED layoutVars
    /\ UNCHANGED <<workerVars, max_panes, panes, panes_iter, focused, next_id, terminal_size, pane_order,
                   expanded_positions, input_q, writer_running, pty_written, sends>>

\* What the getters of the layout return: get_expanded_positions,
\* get_horizontal_expanded, get_areas, get_sub_pane_areas, get_empty_pane_areas.
LayoutSnapshot ==
    [expanded |-> expanded_positions, horizontal |-> horizontal_expanded,
     areas |-> cached_areas, sub_panes |-> sub_pane_areas, empty |-> empty_pane_areas]

\* PaneManager::toggle_pane_expansion; the call record keeps the slot and
\* what the getters returned before the call.
TogglePaneExpansion(position) ==
    /\ DoTogglePaneExpansion(position)
    /\ last' = [op |-> "toggle_pane_expansion", arg |-> position,
                data |-> <<LayoutSnapshot>>, res |-> "Ok"]

\* PaneManager::toggle_horizontal_expansion; the call record keeps the row,
\* the direction and what the getters returned before the call.
ToggleHorizontalExpansion(row, expand_left) ==
    /\ DoToggleHorizontalExpansion(row, expand_left)
    /\ last' = [op |-> "toggle_horizontal_expansion", arg |-> row,
                data |-> <<LayoutSnapshot, expand_left>>, res |-> "Ok"]

\* PaneManager::pane_at_position: the panes it can return, one per iteration
\* order of the map; the empty set when it returns None.
pane_at_position(x, y, areas) == {id \in DOMAIN areas : Contains(areas[id], x, y)}

\* PaneManager::focus_at_position: the new focus when pane_id was found.
FocusAtTarget(f, pane_id) == IF f # Some(pane_id) THEN Some(pane_id) ELSE f

\* The state change of focus_at_position(x, y, areas); res is its return value.
DoFocusAtPosition(x, y, areas, res) ==
    /\ IF pane_at_position(x, y, areas) = {}
       THEN focused' = focused /\ res = "false"
       ELSE \E pane_id \in pane_at_position(x, y, areas) :
               /\ focused' = FocusAtTarget(focused, pane_id)
               /\ res = IF focused # Some(pane_id) THEN "true" ELSE "false"
    /\ UNCHANGED <<workerVars, max_panes, panes, panes_iter, layout, next_id, terminal_size,
                   cached_areas, pane_order, sub_pane_areas, empty_pane_areas,
                   expanded_positions, horizontal_expanded, pty_size, input_q,
                   writer_running, pty_written, sends>>

\* Area maps the host passes to focus_at_position: a copy of get_areas() taken
\* now, or a map of its own that gives one pane id the whole 80x20 screen.
CallerAreas(limit) ==
    {cached_areas} \cup {(id :> Rect(0, 0, 80, 20)) : id \in PaneIds(limit)}

\* PaneManager::focus_at_position
FocusAtPosition(x, y, areas) ==
    \E res \in {"true", "false"} :
        /\ DoFocusAtPosition(x, y, areas, res)
        /\ last' = Called("focus_at_position", 0, res)

\* PaneManager::handle_click
HandleClick(x, y) ==
    \E areas_vec \in SortedByX(cached_areas) :
        LET up == up_arrow_at_position(x, y, areas_vec, expanded_positions)
            down == down_arrow_at_position(x, y, sub_pane_areas)
            horizontal == horizontal_arrow_at_position(x, y, sub_pane_areas)
        IN  IF up # None
            THEN /\ DoTogglePaneExpansion(up[1])
                 /\ last' = Called("handle_click", 0, "true")
            ELSE IF down # None
            THEN /\ DoTogglePaneExpansion(down[1])
                 /\ last' = Called("handle_click", 0, "true")
            ELSE IF horizontal # None
            THEN /\ DoToggleHorizontalExpansion(horizontal[1] \div 2, horizontal[1] % 2 = 0)
                 /\ last' = Called("handle_click", 0, "true")
            ELSE \E res \in {"true", "false"} :
                    /\ DoFocusAtPosition(x, y, cached_areas, res)
                    /\ last' = Called("handle_click", 0, res)

\* A lookup that reports a missing focus as a missing pane.
SendInputLookupNotFound(f, keys) ==
    IF f = None THEN "PaneNotFound"
    ELSE IF f[1] \notin keys THEN "PaneNotFound"
    ELSE "Ok"

\* PaneManager::send_input: the error it returns before reaching the channel,
\* "Ok" when the focused pane's handle is reached.
SendInputLookup(f, keys) ==
    IF f = None THEN "PaneClosed"
    ELSE IF f[1] \notin keys THEN "PaneNotFound"
    ELSE "Ok"

\* PaneManager::send_input followed by PaneHandle::send_input: the state change
\* of one completed call; res is the returned value.  A call on a full channel
\* does not complete (mpsc::Sender::send awaits capacity).
DoSendInput(data, res) ==
    /\ res = IF SendInputLookup(focused, panes) # "Ok"
             THEN SendInputLookup(focused, panes)
             ELSE IF ~writer_running[focused[1]] THEN "PaneClosed"
             ELSE "Ok"
    /\ IF res = "Ok"
       THEN /\ Len(input_q[focused[1]]) < INPUT_QUEUE_CAPACITY
            /\ sends < MaxSends
            /\ input_q' = [input_q EXCEPT ![focused[1]] = Append(@, data)]
            /\ sends' = sends + 1
       ELSE UNCHANGED <<input_q, sends>>
    /\ UNCHANGED <<workerVars, max_panes, panes, panes_iter, layout, focused, next_id, terminal_size,
                   cached_areas, pane_order, sub_pane_areas, empty_pane_areas,
                   expanded_positions, horizontal_expanded, pty_size,
                   writer_running, pty_written>>

\* PaneManager::send_input
SendInput(data) ==
    \E res \in {"Ok", "PaneClosed", "PaneNotFound"} :
        /\ DoSendInput(data, res)
        /\ last' = CalledWith("send_input", data, res)

\* A route_key that forwards every encoding.
ForwardAlways(bytes) == TRUE

\* PaneManager::route_key: `!bytes.is_empty()`
IsNotEmpty(bytes) == bytes # <<>>

\* PaneManager::route_key
RouteKey(key) ==
    IF IsNotEmpty(key_to_bytes(key))
    THEN \E res \in {"Ok", "PaneClosed", "PaneNotFound"} :
            /\ DoSendInput(key_to_bytes(key), res)
            /\ last' = CalledWith("route_key", key_to_bytes(key), res)
    ELSE /\ last' = CalledWith("route_key", <<>>, "Ok")
         /\ UNCHANGED <<workerVars, max_panes, panes, panes_iter, layout, focused, next_id, terminal_size,
                        cached_areas, pane_order, sub_pane_areas, empty_pane_areas,
                        expanded_positions, horizontal_expanded, pty_size, input_q,
                        writer_running, pty_written, sends>>

\* A writer that takes the newest vector of the queue.
WriterStepNewestFirst(pane_id, ok) ==
    /\ pane_id \in DOMAIN input_q
    /\ writer_running[pane_id]
    /\ input_q[pane_id] # <<>>
    /\ input_q' = [input_q EXCEPT ![pane_id] = SubSeq(@, 1, Len(@) - 1)]
    /\ pty_written' = [pty_written EXCEPT
                          ![pane_id] = Append(@, input_q[pane_id][Len(input_q[pane_id])])]
    /\ UNCHANGED <<workerVars, max_panes, panes, panes_iter, layout, focused, next_id,
                   terminal_size, cached_areas, pane_order, sub_pane_areas, empty_pane_areas,
                   expanded_positions, horizontal_expanded, pty_size, sends, last,
                   writer_running>>

\* One iteration of the loop of pty::spawn_writer_task: take the oldest vector
\* and write it; a write or flush error ends the task, which drops input_rx
\* and with it whatever is still queued.
WriterStep(pane_id, ok) ==
    /\ pane_id \in DOMAIN input_q
    /\ writer_running[pane_id]
    /\ input_q[pane_id] # <<>>
    /\ IF ok
       THEN /\ input_q' = [input_q EXCEPT ![pane_id] = Tail(@)]
            /\ pty_written' = [pty_written EXCEPT ![pane_id] = Append(@, Head(input_q[pane_id]))]
            /\ UNCHANGED writer_running
       ELSE /\ input_q' = [input_q EXCEPT ![pane_id] = <<>>]
            /\ writer_running' = [writer_running EXCEPT ![pane_id] = FALSE]
            /\ UNCHANGED pty_written
    /\ UNCHANGED <<workerVars, max_panes, panes, panes_iter, layout, focused, next_id, terminal_size,
                   cached_areas, pane_order, sub_pane_areas, empty_pane_areas,
                   expanded_positions, horizontal_expanded, pty_size, sends, last>>

\* A channel that always has room.
HasCapacityUnbounded(queue) == TRUE

\* Whether the input channel of a pane, made by mpsc::channel(256), has a free
\* slot; Sender::send completes only when it has.
HasCapacity(queue) == Len(queue) < INPUT_QUEUE_CAPACITY

\* A send_input that does not notice that the receiver is gone.
HandleSendInputIgnoresClose(pane_id, data) ==
    /\ pane_id \in DOMAIN input_q
    /\ Len(input_q[pane_id]) < INPUT_QUEUE_CAPACITY
    /\ input_q' = [input_q EXCEPT ![pane_id] = Append(@, data)]
    /\ sends' = sends + 1
    /\ last' = [op |-> "handle.send_input", arg |-> pane_id, data |-> data, res |-> "Ok"]
    /\ UNCHANGED <<workerVars, max_panes, panes, panes_iter, layout, focused, next_id,
                   terminal_size, cached_areas, pane_order, sub_pane_areas, empty_pane_areas,
                   expanded_positions, horizontal_expanded, pty_size,
                   writer_running, pty_written>>

\* PaneHandle::send_input on a clone of the handle spawn returned, which the
\* host can hold for any pane it has spawned; res is the returned value.
HandleSendInput(pane_id, data) ==
    /\ pane_id \in DOMAIN input_q
    /\ IF writer_running[pane_id]
       THEN /\ HasCapacity(input_q[pane_id])
            /\ input_q' = [input_q EXCEPT ![pane_id] = Append(@, data)]
            /\ sends' = sends + 1
            /\ last' = [op |-> "handle.send_input", arg |-> pane_id, data |-> data, res |-> "Ok"]
       ELSE /\ UNCHANGED <<input_q, sends>>
            /\ last' = [op |-> "handle.send_input", arg |-> pane_id, data |-> data,
                        res |-> "PaneClosed"]
    /\ UNCHANGED <<workerVars, max_panes, panes, panes_iter, layout, focused, next_id,
                   terminal_size, cached_areas, pane_order, sub_pane_areas, empty_pane_areas,
                   expanded_positions, horizontal_expanded, pty_size,
                   writer_running, pty_written>>

\* PaneHandle::state
State(pane_id) == pane_state[pane_id]

\* A u32 exit code, written as its high and low 16 bits.
ExitCode(hi, lo) == [hi |-> hi, lo |-> lo]

\* `as i32` of a u32 exit code
AsI32(c) == IF c.hi >= U16 \div 2 THEN (c.hi - U16) * U16 + c.lo ELSE c.hi * U16 + c.lo

\* What child.wait() can return: Ok(status) with an exit code, or Err(e).
WaitOk(code) == [ok |-> TRUE, code |-> code, error |-> ""]

WaitErr(error) == [ok |-> FALSE, code |-> ExitCode(0, 0), error |-> error]

\* Exit codes 0 and 1 (1 is also what portable-pty reports for a child killed
\* by a signal), the code 0xC0000005, which is above i32::MAX, and a failed wait.
WaitResults ==
    {WaitOk(ExitCode(0, 0)), WaitOk(ExitCode(0, 1)), WaitOk(ExitCode(49152, 5)),
     WaitErr("wait failed")}

\* A monitor that takes a nonzero exit code for a crash.
StateForNonZeroCrash(result) ==
    IF result.ok /\ AsI32(result.code) = 0 THEN Exited(0)
    ELSE Crashed(None, Some(result.error))

\* spawn_monitor_task: the state it publishes for a wait result.
StateFor(result) ==
    IF result.ok THEN Exited(AsI32(result.code))
    ELSE Crashed(None, Some(result.error))

\* A monitor whose Exited event always carries code 0.
EventForWithoutCode(pane_id, result) ==
    IF result.ok THEN ExitedEvent(pane_id, 0)
    ELSE CrashedEvent(pane_id, None, result.error)

\* spawn_monitor_task: the event it sends for a wait result.
EventFor(pane_id, result) ==
    IF result.ok THEN ExitedEvent(pane_id, AsI32(result.code))
    ELSE CrashedEvent(pane_id, None, result.error)

\* A monitor that goes back to waiting after it has published a state.
MonitorWaitAgain(pane_id, result) ==
    /\ pane_id \in DOMAIN monitor
    /\ monitor[pane_id].pc # "done"
    /\ pane_state' = [pane_state EXCEPT ![pane_id] = StateFor(result)]
    /\ monitor' = [monitor EXCEPT ![pane_id] = [pc |-> "send", result |-> Some(result)]]
    /\ UNCHANGED <<max_panes, panes, panes_iter, layout, focused, next_id, terminal_size,
                   cached_areas, pane_order, sub_pane_areas, empty_pane_areas,
                   expanded_positions, horizontal_expanded, pty_size, ioVars,
                   reader_running, screenVars, event_q, polled, poll_vec, last>>

\* spawn_monitor_task: child.wait() returns and the state is published on the
\* watch channel.  close_pane's abort() does not stop the task, which was
\* started with spawn_blocking.
MonitorWait(pane_id, result) ==
    /\ pane_id \in DOMAIN monitor
    /\ monitor[pane_id].pc = "wait"
    /\ pane_state' = [pane_state EXCEPT ![pane_id] = StateFor(result)]
    /\ monitor' = [monitor EXCEPT ![pane_id] = [pc |-> "send", result |-> Some(result)]]
    /\ UNCHANGED <<max_panes, panes, panes_iter, layout, focused, next_id, terminal_size,
                   cached_areas, pane_order, sub_pane_areas, empty_pane_areas,
                   expanded_positions, horizontal_expanded, pty_size, ioVars,
                   reader_running, screenVars, event_q, polled, poll_vec, last>>

\* A monitor that drops its event when the queue is full (try_send).
MonitorTrySend(pane_id) ==
    /\ pane_id \in DOMAIN monitor
    /\ monitor[pane_id].pc = "send"
    /\ event_q' = IF Len(event_q) < EVENT_QUEUE_CAPACITY
                  THEN Append(event_q, EventFor(pane_id, monitor[pane_id].result[1]))
                  ELSE event_q
    /\ monitor' = [monitor EXCEPT ![pane_id].pc = "done"]
    /\ UNCHANGED <<max_panes, panes, panes_iter, layout, focused, next_id, terminal_size,
                   cached_areas, pane_order, sub_pane_areas, empty_pane_areas,
                   expanded_positions, horizontal_expanded, pty_size, ioVars,
                   pane_state, reader_running, screenVars, polled, poll_vec, last>>

\* spawn_monitor_task: event_tx.blocking_send completes, which takes a free
\* slot of the event channel; the task ends.
MonitorSend(pane_id) ==
    /\ pane_id \in DOMAIN monitor
    /\ monitor[pane_id].pc = "send"
    /\ Len(event_q) < EVENT_QUEUE_CAPACITY
    /\ event_q' = Append(event_q, EventFor(pane_id, monitor[pane_id].result[1]))
    /\ monitor' = [monitor EXCEPT ![pane_id].pc = "done"]
    /\ UNCHANGED <<max_panes, panes, panes_iter, layout, focused, next_id, terminal_size,
                   cached_areas, pane_order, sub_pane_areas, empty_pane_areas,
                   expanded_positions, horizontal_expanded, pty_size, ioVars,
                   pane_state, reader_running, screenVars, polled, poll_vec, last>>

\* One iteration of the loop of spawn_reader_task that read n bytes, as the
\* event channel sees it: the Output event is sent, which takes a free slot of
\* the channel.  What the iteration does to the screen is followed by the
\* steps ReaderRead, ReaderLockScreen, ReaderProcess and ReaderSend below.
ReaderStep(pane_id, n) ==
    /\ pane_id \in DOMAIN reader_running
    /\ reader_running[pane_id]
    /\ reader_pc[pane_id].pc = "read"
    /\ Len(event_q) < EVENT_QUEUE_CAPACITY
    /\ event_q' = Append(event_q, OutputEvent(pane_id, n))
    /\ UNCHANGED <<max_panes, panes, panes_iter, layout, focused, next_id, terminal_size,
                   cached_areas, pane_order, sub_pane_areas, empty_pane_areas,
                   expanded_positions, horizontal_expanded, pty_size, ioVars,
                   pane_state, monitor, reader_running, screenVars, polled, poll_vec, last>>

\* spawn_reader_task: read returns Ok(0) or an error and the loop ends.
ReaderEof(pane_id) ==
    /\ pane_id \in DOMAIN reader_running
    /\ reader_running[pane_id]
    /\ reader_pc[pane_id].pc = "read"
    /\ reader_running' = [reader_running EXCEPT ![pane_id] = FALSE]
    /\ UNCHANGED <<max_panes, panes, panes_iter, layout, focused, next_id, terminal_size,
                   cached_areas, pane_order, sub_pane_areas, empty_pane_areas,
                   expanded_positions, horizontal_expanded, pty_size, ioVars,
                   pane_state, monitor, event_q, polled, poll_vec, screenVars, last>>

\* What the reader and screen_snapshot leave alone.
screenFrame == <<max_panes, panes, panes_iter, layout, focused, next_id, terminal_size,
                 cached_areas, pane_order, sub_pane_areas, empty_pane_areas,
                 expanded_positions, horizontal_expanded, pty_size, ioVars,
                 pane_state, monitor, reader_running, polled, poll_vec>>

\* spawn_reader_task: reader.read(&mut buf) returned Ok(n), n > 0: the reader
\* holds its next chunk, which no lock protects.
ReaderRead(pane_id, n) ==
    /\ pane_id \in DOMAIN reader_running
    /\ reader_running[pane_id]
    /\ reader_pc[pane_id].pc = "read"
    /\ reader_pc' = [reader_pc EXCEPT ![pane_id] =
                         [pc |-> "lock", reads |-> @.reads + 1, n |-> n]]
    /\ UNCHANGED <<screenFrame, last, event_q, screen, snapshot>>

\* spawn_reader_task: screen.write() returns once no guard is out, and
\* screen.process(data) starts changing the parser.
ReaderLockScreen(pane_id) ==
    /\ pane_id \in DOMAIN reader_pc
    /\ reader_pc[pane_id].pc = "lock"
    /\ ~screen[pane_id].writer
    /\ screen[pane_id].readers = 0
    /\ screen' = [screen EXCEPT ![pane_id].writer = TRUE, ![pane_id].partial = TRUE]
    /\ reader_pc' = [reader_pc EXCEPT ![pane_id].pc = "process"]
    /\ UNCHANGED <<screenFrame, last, event_q, snapshot>>

\* spawn_reader_task: screen.process(data) returns and the block that owns
\* the write guard ends, though the guard is kept here until the send.
ReaderProcessKeepsLock(pane_id) ==
    /\ pane_id \in DOMAIN reader_pc
    /\ reader_pc[pane_id].pc = "process"
    /\ screen' = [screen EXCEPT ![pane_id].chunks = Append(@, reader_pc[pane_id].reads),
                                ![pane_id].partial = FALSE]
    /\ reader_pc' = [reader_pc EXCEPT ![pane_id].pc = "send"]
    /\ UNCHANGED <<screenFrame, last, event_q, snapshot>>

\* spawn_reader_task: screen.process(data) returns, the parser holds the whole
\* chunk, and the block that owns the write guard ends.
ReaderProcess(pane_id) ==
    /\ pane_id \in DOMAIN reader_pc
    /\ reader_pc[pane_id].pc = "process"
    /\ screen' = [screen EXCEPT ![pane_id].chunks = Append(@, reader_pc[pane_id].reads),
                                ![pane_id].partial = FALSE,
                                ![pane_id].writer = FALSE]
    /\ reader_pc' = [reader_pc EXCEPT ![pane_id].pc = "send"]
    /\ UNCHANGED <<screenFrame, last, event_q, snapshot>>

\* spawn_reader_task: event_tx.blocking_send(Output) returns once the event
\* channel has a free slot, and the loop goes back to read.
ReaderSend(pane_id) ==
    /\ pane_id \in DOMAIN reader_pc
    /\ reader_pc[pane_id].pc = "send"
    /\ Len(event_q) < EVENT_QUEUE_CAPACITY
    /\ event_q' = Append(event_q, OutputEvent(pane_id, reader_pc[pane_id].n))
    /\ reader_pc' = [reader_pc EXCEPT ![pane_id].pc = "read"]
    /\ UNCHANGED <<screenFrame, last, screen, snapshot>>

\* PaneHandle::screen_snapshot (and PaneWidget::render): screen.read() returns
\* once no write guard is out, and the cells are copied from the parser.
ScreenSnapshotRead(pane_id) ==
    /\ pane_id \in DOMAIN screen
    /\ snapshot = None
    /\ ~screen[pane_id].writer
    /\ screen' = [screen EXCEPT ![pane_id].readers = @ + 1]
    /\ snapshot' = Some([pane_id |-> pane_id, chunks |-> screen[pane_id].chunks,
                         partial |-> screen[pane_id].partial])
    /\ UNCHANGED <<screenFrame, last, event_q, reader_pc>>

\* PaneHandle::screen_snapshot returns: the read guard is dropped.
ScreenSnapshotReturn ==
    /\ snapshot # None
    /\ screen' = [screen EXCEPT ![snapshot[1].pane_id].readers = @ - 1]
    /\ snapshot' = None
    /\ last' = Called("screen_snapshot", snapshot[1].pane_id, "Ok")
    /\ UNCHANGED <<screenFrame, event_q, reader_pc>>

\* Exited and Crashed events
IsTerminalEvent(event) == event.kind \in {"Exited", "Crashed"}

\* PaneManager::poll_events: try_recv until the channel is empty.
PollEvents ==
    /\ polled' = SelectSeq(event_q, IsTerminalEvent)
    /\ event_q' = <<>>
    /\ last' = Called("poll_events", 0, "Ok")
    /\ UNCHANGED <<max_panes, panes, panes_iter, layout, focused, next_id, terminal_size,
                   cached_areas, pane_order, sub_pane_areas, empty_pane_areas,
                   expanded_positions, horizontal_expanded, pty_size, ioVars,
                   pane_state, monitor, reader_running, screenVars, poll_vec>>

\* poll_events while workers run, one step of its loop at a time.  The call
\* starts with an empty Vec.
PollStart ==
    /\ poll_vec = None
    /\ poll_vec' = Some(<<>>)
    /\ UNCHANGED <<max_panes, panes, panes_iter, layout, focused, next_id, terminal_size,
                   cached_areas, pane_order, sub_pane_areas, empty_pane_areas,
                   expanded_positions, horizontal_expanded, pty_size, ioVars,
                   pane_state, monitor, reader_running, screenVars, event_q, polled, last>>

\* try_recv returns Ok(event): the oldest event leaves the channel and is
\* pushed onto the Vec.  The specification caps the Vec at MaxPollVec.
PollTryRecv ==
    /\ poll_vec # None
    /\ event_q # <<>>
    /\ Len(poll_vec[1]) < MaxPollVec
    /\ poll_vec' = Some(Append(poll_vec[1], Head(event_q)))
    /\ event_q' = Tail(event_q)
    /\ UNCHANGED <<max_panes, panes, panes_iter, layout, focused, next_id, terminal_size,
                   cached_areas, pane_order, sub_pane_areas, empty_pane_areas,
                   expanded_positions, horizontal_expanded, pty_size, ioVars,
                   pane_state, monitor, reader_running, screenVars, polled, last>>

\* try_recv returns Err(Empty): the loop ends and the Vec is returned.
PollReturn ==
    /\ poll_vec # None
    /\ event_q = <<>>
    /\ polled' = SelectSeq(poll_vec[1], IsTerminalEvent)
    /\ poll_vec' = None
    /\ last' = Called("poll_events", 0, "Ok")
    /\ UNCHANGED <<max_panes, panes, panes_iter, layout, focused, next_id, terminal_size,
                   cached_areas, pane_order, sub_pane_areas, empty_pane_areas,
                   expanded_positions, horizontal_expanded, pty_size, ioVars,
                   pane_state, monitor, reader_running, screenVars, event_q>>

\* PaneManager::resize_pane
ResizePane(pane_id, size) ==
    /\ IF pane_id \in panes
       THEN /\ pty_size' = [pty_size EXCEPT ![pane_id] = size]
            /\ last' = Called("resize_pane", pane_id, "Ok")
       ELSE /\ UNCHANGED pty_size
            /\ last' = Called("resize_pane", pane_id, "PaneNotFound")
    /\ UNCHANGED <<workerVars, max_panes, panes, panes_iter, layout, focused, next_id,
                   terminal_size, cached_areas, pane_order, sub_pane_areas, empty_pane_areas,
                   expanded_positions, horizontal_expanded, ioVars>>

\* Byte counts a read of the reader returns.
ReadSizes == {1}

\* -------------------------------------------------------------- specifications
\* The registry and the layout: spawn with each of its outcomes, close_pane,
\* terminal resizes and mouse clicks.
Next ==
    \/ SpawnRefused
    \/ SpawnFailed(MaxId)
    \/ SpawnOk(MaxId)
    \/ \E pane_id \in PaneIds(MaxId) : ClosePane(pane_id)
    \/ \E size \in TerminalSizes : SetTerminalSize(size)
    \/ \E c \in ManagerClicks : HandleClick(c[1], c[2])

Spec == Init /\ [][Next]_vars

\* The focus operations on an 80x20 terminal, with the spawns and closes that
\* change what they range over.
NextFocus ==
    \/ SpawnRefused
    \/ SpawnOk(MaxFocusId)
    \/ \E pane_id \in PaneIds(MaxFocusId) : ClosePane(pane_id)
    \/ \E pane_id \in PaneIds(MaxFocusId) : SetFocus(pane_id)
    \/ FocusNext
    \/ FocusPrev
    \/ SetTerminalSize(Rect(0, 0, 80, 20))
    \/ \E areas \in CallerAreas(MaxFocusId) : FocusAtPosition(3, 5, areas)
    \/ \E c \in ManagerClicks : HandleClick(c[1], c[2])

SpecFocus == Init /\ [][NextFocus]_vars

\* The input path: the manager's send_input and route_key, the writer tasks,
\* and the registry and focus operations that decide where input goes.
NextInput ==
    \/ SpawnRefused
    \/ SpawnOk(MaxInputId)
    \/ \E pane_id \in PaneIds(MaxInputId) : ClosePane(pane_id)
    \/ \E pane_id \in PaneIds(MaxInputId) : SetFocus(pane_id)
    \/ \E areas \in CallerAreas(MaxInputId) : FocusAtPosition(3, 5, areas)
    \/ \E data \in Payloads : SendInput(data)
    \/ \E key \in RoutedKeys : RouteKey(key)
    \/ \E pane_id \in PaneIds(MaxInputId), ok \in BOOLEAN : WriterStep(pane_id, ok)

\* The manager of the input path is built with max_panes = 2.
InitInput == Init /\ max_panes = 2

SpecInput == InitInput /\ [][NextInput]_vars

\* The monitors: children exit or their wait fails, each monitor publishes the
\* state and sends its event, the host polls and closes panes.
NextMonitor ==
    \/ SpawnRefused
    \/ SpawnOk(MaxMonitorId)
    \/ \E pane_id \in PaneIds(MaxMonitorId) : ClosePane(pane_id)
    \/ \E pane_id \in PaneIds(MaxMonitorId), result \in WaitResults : MonitorWait(pane_id, result)
    \/ \E pane_id \in PaneIds(MaxMonitorId) : MonitorSend(pane_id)
    \/ PollEvents

SpecMonitor == InitInput /\ [][NextMonitor]_vars

\* Slots the host toggles: two in range, one out of range.
TogglePositions == {0, 1, 4}
\* Rows the host toggles: one in range, one out of range.
ToggleRows == {0, 2}
\* Sizes the host passes to resize_pane.
ResizeSizes == {PaneSize(24, 80)}

\* The layout and the resize fan-out: every operation that recomputes the
\* layout, a spawn that is refused, and resize_pane.
NextLayout ==
    \/ SpawnRefused
    \/ SpawnOk(MaxLayoutId)
    \/ \E pane_id \in PaneIds(MaxLayoutId) : ClosePane(pane_id)
    \/ \E size \in TerminalSizes : SetTerminalSize(size)
    \/ \E position \in TogglePositions : TogglePaneExpansion(position)
    \/ \E row \in ToggleRows, expand_left \in BOOLEAN : ToggleHorizontalExpansion(row, expand_left)
    \/ \E pane_id \in PaneIds(MaxLayoutId), size \in ResizeSizes : ResizePane(pane_id, size)

SpecLayout == InitInput /\ [][NextLayout]_vars

\* The id of the first pane: next_id starts at 1.
FirstPaneId == 1

\* The grid: one pane that comes and goes, two terminal areas, and the
\* vertical and horizontal expansion of every slot and row.
NextGrid ==
    \/ SpawnOk(FirstPaneId)
    \/ ClosePane(FirstPaneId)
    \/ \E size \in TerminalSizes : SetTerminalSize(size)
    \/ \E position \in 0..4 : TogglePaneExpansion(position)
    \/ \E row \in 0..2, expand_left \in BOOLEAN : ToggleHorizontalExpansion(row, expand_left)

SpecGrid == InitInput /\ [][NextGrid]_vars

\* poll_events running next to a reader that keeps producing.
NextPoll ==
    \/ SpawnOk(FirstPaneId)
    \/ \E n \in ReadSizes : ReaderStep(FirstPaneId, n)
    \/ PollStart
    \/ PollTryRecv
    \/ PollReturn

SpecPoll == InitInput /\ [][NextPoll]_vars

\* One pane whose output is never polled: the reader's loop step by step, up
\* to the event channel filling up, next to a host that takes screen snapshots.
NextScreen ==
    \/ SpawnOk(FirstPaneId)
    \/ \E n \in ReadSizes : ReaderRead(FirstPaneId, n)
    \/ ReaderLockScreen(FirstPaneId)
    \/ ReaderProcess(FirstPaneId)
    \/ ReaderSend(FirstPaneId)
    \/ ReaderEof(FirstPaneId)
    \/ ScreenSnapshotRead(FirstPaneId)
    \/ ScreenSnapshotReturn

SpecScreen == InitInput /\ [][NextScreen]_vars

\* Mouse positions of the click specification, in an 80x20 terminal: <<22, 17>>
\* lies in the horizontal arrow of sub-pane 2; <<35, 17>> lies in the
\* down-arrow of sub-pane 3 once row 0 is expanded to the right, and in the
\* up-arrow of slot 1 once that slot is expanded too; <<3, 5>> lies in slot 0.
ClickPoints == { <<22, 17>>, <<35, 17>>, <<3, 5>> }

\* Mouse clicks on a grid of up to two panes.
NextClick ==
    \/ SpawnOk(MaxLayoutId)
    \/ \E pane_id \in PaneIds(MaxLayoutId) : ClosePane(pane_id)
    \/ SetTerminalSize(Rect(0, 0, 80, 20))
    \/ \E c \in ClickPoints : HandleClick(c[1], c[2])

SpecClick == InitInput /\ [][NextClick]_vars

\* Terminal areas of the widths specification: every width from 0 up, at an
\* origin that is not (0, 0).
GridSizes == {Rect(2, 1, w, 11) : w \in 0..MaxGridWidth}

\* The rectangles of the four slots and eight sub-panes for every terminal
\* width and every expansion state; no pane is spawned.
NextWidths ==
    \/ \E size \in GridSizes : SetTerminalSize(size)
    \/ \E position \in 0..3 : TogglePaneExpansion(position)
    \/ \E row \in 0..1, expand_left \in BOOLEAN : ToggleHorizontalExpansion(row, expand_left)

SpecWidths == InitInput /\ [][NextWidths]_vars

\* The layout trees and areas given to LayoutCalculator::calculate_areas:
\* single panes, splits of two panes in both directions with requested ratios
\* inside and outside 0.1 .. 0.9, and equal splits of a pane and such a split.
LayoutTrees ==
    LET leaves == {Single(id) : id \in 1..MaxTreeId}
        directions == {"Horizontal", "Vertical"}
        splits == {Split(d, r, a, b) : d \in directions, r \in {0, 25, 50, 100},
                                       a \in leaves, b \in leaves}
    IN  leaves \cup splits
           \cup {Split(d, 50, Single(1), t) : d \in directions, t \in splits}

CalcAreas == {Rect(x, 1, w, h) : x \in {0, 2}, w \in 0..MaxGridWidth, h \in {0, 5}}

\* A caller holds a layout tree and an area.
InitCalculate ==
    /\ InitManager
    /\ max_panes = 2
    /\ \E tree \in LayoutTrees, area \in CalcAreas :
           last = CalledWith("Layout", <<tree, area>>, "Ok")

\* LayoutCalculator::calculate_areas(&layout, area) called with them.
CalculateAreas ==
    /\ last.op = "Layout"
    /\ last' = CalledWith("calculate_areas",
                          <<last.data[1], last.data[2],
                            calculate_areas(last.data[1], last.data[2])>>, "Ok")
    /\ UNCHANGED <<max_panes, registryVars, focused, terminal_size, layoutVars,
                   expansionVars, ioVars, workerVars>>

SpecCalculate == InitCalculate /\ [][CalculateAreas]_vars

\* Every operation of the host on a manager of two panes in one terminal
\* size: the operations that own the expansion state next to those that must
\* leave it alone.
NextFrame ==
    \/ SpawnOk(FirstPaneId + 1)
    \/ \E pane_id \in PaneIds(FirstPaneId) : ClosePane(pane_id)
    \/ SetTerminalSize(Rect(0, 0, 80, 20))
    \/ \E pane_id \in PaneIds(FirstPaneId) : SetFocus(pane_id)
    \/ FocusNext
    \/ FocusPrev
    \/ \E data \in Payloads : SendInput(data)
    \/ PollEvents
    \/ \E position \in 0..1 : TogglePaneExpansion(position)
    \/ ToggleHorizontalExpansion(0, TRUE)
    \/ \E c \in ClickPoints : HandleClick(c[1], c[2])

SpecFrame == InitInput /\ [][NextFrame]_vars

\* Spawns up to the hard limit of four panes under every terminal width from 0
\* up, so that calculate_initial_pane_size sees every pending pane count.
NextInitialSize ==
    \/ SpawnOk(MaxId)
    \/ \E pane_id \in PaneIds(MaxId) : ClosePane(pane_id)
    \/ \E size \in GridSizes : SetTerminalSize(size)

\* The manager is built with the hard limit of four panes.
InitInitialSize == Init /\ max_panes = MAX_PANES_LIMIT

SpecInitialSize == InitInitialSize /\ [][NextInitialSize]_vars

\* Byte slices the host passes to a handle's send_input: b"hi" and b"\r".
HandlePayloads == Payloads \cup { <<13>> }

\* The workers of a pane and the handle the host keeps: input sent through the
\* handle, the writer, the reader, the monitor, polls, and close_pane.
NextHandle ==
    \/ SpawnOk(FirstPaneId)
    \/ ClosePane(FirstPaneId)
    \/ \E data \in HandlePayloads : sends < MaxSends /\ HandleSendInput(FirstPaneId, data)
    \/ \E ok \in BOOLEAN : WriterStep(FirstPaneId, ok)
    \/ \E n \in ReadSizes : event_q = <<>> /\ ReaderStep(FirstPaneId, n)
    \/ ReaderEof(FirstPaneId)
    \/ \E result \in WaitResults : MonitorWait(FirstPaneId, result)
    \/ MonitorSend(FirstPaneId)
    \/ PollEvents

SpecHandle == InitInput /\ [][NextHandle]_vars

\* What the host sends in the full-queue specification: b"hi" until as many
\* vectors were accepted as the input channel holds, b"\r" from then on.
PressurePayload == IF sends < INPUT_QUEUE_CAPACITY THEN <<104, 105>> ELSE <<13>>

\* One pane whose host sends input faster than the writer drains it.
NextPressure ==
    \/ SpawnOk(FirstPaneId)
    \/ sends < MaxPressureSends /\ HandleSendInput(FirstPaneId, PressurePayload)
    \/ WriterStep(FirstPaneId, TRUE)

SpecPressure == InitInput /\ [][NextPressure]_vars

\* The event channel under load: one pane whose reader keeps sending Output
\* events until the monitor's event is queued (the child's output ends with
\* the child), its monitor, and a host that polls.
NextEvents ==
    \/ SpawnOk(FirstPaneId)
    \/ \E n \in ReadSizes : ReaderStep(FirstPaneId, n) /\ monitor[FirstPaneId].pc # "done"
    \/ \E result \in {WaitOk(ExitCode(0, 0)), WaitErr("wait failed")} :
          MonitorWait(FirstPaneId, result)
    \/ MonitorSend(FirstPaneId)
    \/ PollEvents

\* The host keeps calling poll_events (weak fairness).  A monitor blocked in
\* blocking_send waits in the FIFO queue of the channel's semaphore, so it gets
\* a slot that is freed again and again (strong fairness).
SpecEvents ==
    /\ InitInput
    /\ [][NextEvents]_vars
    /\ WF_vars(PollEvents)
    /\ SF_vars(MonitorSend(FirstPaneId))

\* ------------------------------------------------------------------- claims
\* A step in which the host calls spawn, whatever the outcome.
SpawnCall == SpawnRefused \/ SpawnFailed(MaxId) \/ SpawnOk(MaxId)

\* C1: with a terminal size set, after every spawn and every close_pane that
\* leaves N live panes, cached_areas has exactly N entries and
\* empty_pane_areas exactly 4 - N entries, whose slot numbers are pairwise
\* distinct and lie in 1..4.
C1_AreasAndEmptySlots ==
    (terminal_size # None /\ last.op \in {"spawn", "close_pane"}) =>
        /\ Cardinality(panes) <= 4
        /\ Cardinality(DOMAIN cached_areas) = Cardinality(panes)
        /\ Len(empty_pane_areas) = 4 - Cardinality(panes)
        /\ \A i, j \in DOMAIN empty_pane_areas :
              i # j => empty_pane_areas[i].slot_index # empty_pane_areas[j].slot_index
        /\ \A i \in DOMAIN empty_pane_areas : empty_pane_areas[i].slot_index \in 1..4

\* C1 witness: a close_pane has left two of three spawned panes on a sized
\* terminal; two areas are cached and slots 3 and 4 are empty.
C1_Witness ==
    /\ terminal_size # None
    /\ last.op = "close_pane"
    /\ next_id >= 4
    /\ Cardinality(panes) = 2
    /\ Cardinality(DOMAIN cached_areas) = 2
    /\ {empty_pane_areas[i].slot_index : i \in DOMAIN empty_pane_areas} = {3, 4}

\* C3: after any sequence of spawn and close_pane calls, pane_order has no
\* duplicates, is as long as the panes registry, and every id in it is a key
\* of panes.
C3_OrderMatchesRegistry ==
    /\ \A i, j \in DOMAIN pane_order : i # j => pane_order[i] # pane_order[j]
    /\ Len(pane_order) = Cardinality(panes)
    /\ Range(pane_order) \subseteq panes

\* C3 witness: a close_pane of an id that was never handed out, with two
\* panes registered and one closed before.
C3_Witness ==
    /\ last.op = "close_pane"
    /\ last.arg >= next_id
    /\ Len(pane_order) = 2
    /\ next_id >= 4

\* C4: a spawn called when the live pane count has reached max_panes returns
\* a Layout error and leaves panes, pane_order, focus and the layout as they
\* were; max_panes is at most 4, and the pane count never exceeds it.
C4_SpawnRefusedWhenFull ==
    /\ [](max_panes <= 4 /\ Cardinality(panes) <= max_panes)
    /\ [][(SpawnCall /\ Cardinality(panes) >= max_panes) =>
            /\ last'.res = "Layout"
            /\ UNCHANGED <<panes, pane_order, focused, layout, cached_areas,
                           sub_pane_areas, empty_pane_areas>>]_vars

\* C4 witness: spawn has just been refused with four panes registered.
C4_Witness ==
    /\ last.op = "spawn"
    /\ last.res = "Layout"
    /\ Cardinality(panes) = 4
    /\ max_panes = 4

\* C5: when spawn returns an error of pty::spawn_pty, panes, pane_order,
\* focused, cached_areas and empty_pane_areas are exactly as before the call.
C5_FailedSpawnRegistersNothing ==
    [][(SpawnCall /\ last'.res \in SpawnPtyErrors) =>
         UNCHANGED <<panes, pane_order, focused, cached_areas, empty_pane_areas>>]_vars

\* C5 witness: spawn has just returned a PTY error on a sized terminal that
\* holds one pane.
C5_Witness ==
    /\ last.op = "spawn"
    /\ last.res \in SpawnPtyErrors
    /\ terminal_size # None
    /\ Cardinality(panes) = 1
    /\ focused = Some(pane_order[1])

\* C2: focused is None or the id of a pane that is in pane_order, in every
\* state reached through spawn, close_pane, set_focus, focus_next,
\* focus_prev, focus_at_position and handle_click.
C2_FocusedIsInPaneOrder ==
    focused = None \/ focused[1] \in Range(pane_order)

\* C6: a send_input that finds no pane focused returns PaneClosed and leaves
\* every queue as it was; one that returns Ok has appended its bytes as the
\* newest entry of the focused pane's queue and changed no other queue.
C6_SendInputGoesToFocused ==
    [][\A data \in Payloads : SendInput(data) =>
          /\ focused = None => (last'.res = "PaneClosed" /\ input_q' = input_q)
          /\ last'.res = "Ok" =>
                /\ focused # None
                /\ input_q' = [input_q EXCEPT ![focused[1]] = Append(@, data)]
          /\ last'.res # "Ok" => input_q' = input_q]_vars

\* C6 witness: with two panes registered and the second focused, send_input
\* has returned Ok; the bytes are queued for the second pane and nothing is
\* queued for the first.
C6_Witness ==
    /\ last.op = "send_input"
    /\ last.res = "Ok"
    /\ Cardinality(panes) = 2
    /\ focused = Some(pane_order[2])
    /\ input_q[pane_order[2]] = <<last.data>>
    /\ input_q[pane_order[1]] = <<>>

\* C7: route_key with a key whose encoding is empty returns Ok and changes no
\* queue, focused pane or not; with a non-empty encoding a call that returns
\* Ok has appended exactly that byte vector as one entry to the focused
\* pane's queue and changed no other queue; Enter is encoded as [0x0D].
C7_RouteKeyDropsUnboundKeys ==
    [][\A key \in RoutedKeys : RouteKey(key) =>
          /\ key.code = "Enter" => last'.data = <<13>>
          /\ key_to_bytes(key) = <<>> => (last'.res = "Ok" /\ input_q' = input_q)
          /\ (key_to_bytes(key) # <<>> /\ last'.res = "Ok") =>
                /\ focused # None
                /\ input_q' = [input_q EXCEPT ![focused[1]] = Append(@, key_to_bytes(key))]]_vars

\* C7 witness: after two spawns, with the first-spawned pane focused,
\* route_key(Enter) has returned Ok and [0x0D] is the one entry queued for the
\* first pane; the second pane's queue is empty.
C7_Witness ==
    /\ last.op = "route_key"
    /\ last.res = "Ok"
    /\ last.data = <<13>>
    /\ pane_order = <<1, 2>>
    /\ focused = Some(1)
    /\ input_q[1] = << <<13>> >>
    /\ input_q[2] = <<>>

\* C8: close_pane(id) called twice leaves the manager as one call does, and
\* close_pane of an id that is not registered changes neither panes,
\* pane_order nor focused.
C8_CloseIsIdempotent ==
    [][\A pane_id \in PaneIds(MaxFocusId) : ClosePane(pane_id) =>
          /\ (/\ panes \ {pane_id} = panes
              /\ Retain(pane_order, pane_id) = pane_order
              /\ FocusAfterClose(focused, pane_id, pane_order) = focused)'
          /\ pane_id \notin panes => UNCHANGED <<panes, pane_order, focused>>]_vars

\* C9 as stated: close_pane of a registered pane removes its id from
\* pane_order and leaves the first remaining pane focused (None when none
\* remains), whichever registered pane was focused before.
C9_CloseFocusesFirstRemaining ==
    [][\A pane_id \in PaneIds(MaxFocusId) :
          (ClosePane(pane_id) /\ pane_id \in panes /\ focused # None /\ focused[1] \in panes) =>
              /\ pane_id \notin Range(pane_order')
              /\ focused' = IF pane_order' = <<>> THEN None ELSE Some(Head(pane_order'))]_vars

\* C9 amended: close_pane(id) removes id from pane_order; when id was the
\* focused pane, focus moves to the first remaining pane of pane_order, or to
\* None when none remains; otherwise focus is left as it was.
C9_CloseRefocusesOnlyClosedFocus ==
    [][\A pane_id \in PaneIds(MaxFocusId) : ClosePane(pane_id) =>
          /\ pane_id \notin Range(pane_order')
          /\ focused = Some(pane_id) =>
                focused' = IF pane_order' = <<>> THEN None ELSE Some(Head(pane_order'))
          /\ focused # Some(pane_id) => focused' = focused]_vars

\* C9 witness: pane 1, focused since its spawn or refocused later, has been
\* closed by the last call; panes 2 and 3 remain and pane 3, not the first
\* remaining one, holds the focus it had.
C9_Witness ==
    /\ last.op = "close_pane"
    /\ last.arg = 1
    /\ pane_order = <<2, 3>>
    /\ focused = Some(3)

\* C10: focus_next moves focus to the pane that follows the focused one in
\* pane_order and focus_prev to the one that precedes it, wrapping at both
\* ends; both leave focus alone on an empty registry.
C10_FocusCyclesInPaneOrder ==
    [][LET i == CHOOSE k \in DOMAIN pane_order : pane_order[k] = focused[1]
           following == pane_order[IF i = Len(pane_order) THEN 1 ELSE i + 1]
           preceding == pane_order[IF i = 1 THEN Len(pane_order) ELSE i - 1]
       IN  /\ (FocusNext /\ focused # None /\ focused[1] \in panes) =>
                  focused' = Some(following)
           /\ (FocusPrev /\ focused # None /\ focused[1] \in panes) =>
                  focused' = Some(preceding)
           /\ ((FocusNext \/ FocusPrev) /\ panes = {}) => focused' = focused]_vars

\* C11: on a non-empty registry, the focus_next call that completes a row of
\* as many focus_next calls as there are panes (no other call in between)
\* leaves focus where it was when the row started, and a focus_prev made right
\* after a focus_next leaves focus where it was before that focus_next.
C11_FocusCycleReturns ==
    [][/\ (FocusNext /\ panes # {} /\ last'.arg = Cardinality(panes)) =>
              focused' = Some(last'.data[1])
       /\ (FocusPrev /\ panes # {} /\ last.op = "focus_next") =>
              focused' = Some(last.data[2])]_vars

\* C12: a pane's state is Running when the pane is created; a state that is
\* not Running is never replaced, so a read of state() that saw Exited or
\* Crashed is followed only by reads of the same value; Paused is never seen.
C12_StateChangesOnce ==
    [][\A pane_id \in DOMAIN pane_state' :
          /\ pane_id \notin DOMAIN pane_state => State(pane_id)' = Running
          /\ (pane_id \in DOMAIN pane_state /\ State(pane_id) # Running) =>
                State(pane_id)' = State(pane_id)
          /\ State(pane_id)'.kind \in {"Running", "Exited", "Crashed"}]_vars

\* C12 witness: pane 1 has crashed and pane 2 has exited with code 1, both
\* monitors have finished, pane 1 has been closed since and the host has
\* polled; both states are still what the monitors published.
C12_Witness ==
    /\ DOMAIN pane_state = {1, 2}
    /\ State(1).kind = "Crashed"
    /\ State(2) = Exited(1)
    /\ monitor[1].pc = "done" /\ monitor[2].pc = "done"
    /\ 1 \notin panes
    /\ last.op = "poll_events"

C13_TerminalEventIsPolled ==
    \A result \in WaitResults :
        (/\ FirstPaneId \in DOMAIN monitor
         /\ monitor[FirstPaneId].pc = "send"
         /\ monitor[FirstPaneId].result = Some(result))
            ~> (EventFor(FirstPaneId, result) \in Range(polled))

\* C13 witness: the child has exited while the event channel holds 256 Output
\* events; the monitor is blocked in blocking_send.
C13_Witness ==
    /\ Len(event_q) = EVENT_QUEUE_CAPACITY
    /\ \A i \in DOMAIN event_q : event_q[i].kind = "Output"
    /\ monitor[FirstPaneId].pc = "send"

\* C15: for each pane whose writer is running after a step, the vectors
\* written to the PTY followed by the vectors still queued are what they were
\* before the step, or that with the vector an accepted send_input added at
\* the end; what was written stays written, and the only vector a step adds to
\* it is the oldest queued one.  So vectors reach the PTY whole, in the order
\* they were enqueued, none twice and none skipped.
C15_WriterIsFifo ==
    [][\A pane_id \in DOMAIN input_q :
          writer_running'[pane_id] =>
              LET before == pty_written[pane_id] \o input_q[pane_id]
                  after == pty_written'[pane_id] \o input_q'[pane_id]
                  written == Len(pty_written[pane_id])
              IN  /\ \/ after = before
                     \/ /\ last'.op = "handle.send_input" /\ last'.arg = pane_id
                        /\ last'.res = "Ok"
                        /\ after = Append(before, last'.data)
                        /\ pty_written'[pane_id] = pty_written[pane_id]
                  /\ \/ pty_written'[pane_id] = pty_written[pane_id]
                     \/ /\ input_q[pane_id] # <<>>
                        /\ pty_written'[pane_id] =
                              Append(pty_written[pane_id], Head(input_q[pane_id]))]_vars

\* C15 witness: two different vectors were sent to pane 1 and the writer has
\* written both; nothing is queued.
C15_Witness ==
    /\ 1 \in DOMAIN input_q
    /\ writer_running[1]
    /\ Len(pty_written[1]) = 2
    /\ pty_written[1][1] # pty_written[1][2]
    /\ input_q[1] = <<>>

\* C17: once the writer of a pane has ended on a write or flush error, a
\* send_input on a handle of that pane returns PaneClosed and queues nothing,
\* however full the queue was.
C17_SendAfterWriterEndIsPaneClosed ==
    [][\A pane_id \in DOMAIN input_q, data \in HandlePayloads :
          (HandleSendInput(pane_id, data) /\ ~writer_running[pane_id]) =>
              (last'.res = "PaneClosed" /\ input_q' = input_q)]_vars

\* C17 witness: the writer of pane 1 has ended, and a send_input on the handle
\* of pane 1, which is still registered, has returned PaneClosed.
C17_Witness ==
    /\ last.op = "handle.send_input"
    /\ last.arg = 1
    /\ last.res = "PaneClosed"
    /\ 1 \in panes
    /\ ~writer_running[1]
    /\ input_q[1] = <<>>

\* C18: for a pane that close_pane has removed, no step writes to its PTY, no
\* step of its reader or monitor is taken (its emulator is not updated, no
\* event for it is enqueued), and no send_input on a handle of it returns Ok.
C18_ClosedPaneWorkersStop ==
    [][\A pane_id \in DOMAIN input_q \ panes :
          /\ pty_written'[pane_id] = pty_written[pane_id]
          /\ monitor'[pane_id] = monitor[pane_id]
          /\ \A n \in ReadSizes : ~ReaderStep(pane_id, n)
          /\ \A data \in HandlePayloads : ~HandleSendInput(pane_id, data) \/ last'.res # "Ok"]_vars

\* C16: the input queue of a pane never holds more than 256 vectors; a
\* send_input completes only in a step that starts with fewer than 256
\* queued, and then adds its vector at the end of the queue; while 256 are
\* queued the only change to the queue is the writer taking the oldest
\* vector and writing it, so nothing queued is dropped or overwritten.
C16_FullQueueBlocksSend ==
    [][\A pane_id \in DOMAIN input_q :
          /\ Len(input_q'[pane_id]) <= INPUT_QUEUE_CAPACITY
          /\ sends' # sends =>
                /\ Len(input_q[pane_id]) < INPUT_QUEUE_CAPACITY
                /\ last'.res = "Ok"
                /\ input_q'[pane_id] = Append(input_q[pane_id], last'.data)
                /\ pty_written'[pane_id] = pty_written[pane_id]
          /\ Len(input_q[pane_id]) = INPUT_QUEUE_CAPACITY =>
                \/ /\ input_q'[pane_id] = input_q[pane_id]
                   /\ pty_written'[pane_id] = pty_written[pane_id]
                \/ /\ input_q'[pane_id] = Tail(input_q[pane_id])
                   /\ pty_written'[pane_id] =
                         Append(pty_written[pane_id], Head(input_q[pane_id]))]_vars

\* C16 witness: 256 vectors b"hi" were accepted for pane 1, the writer has
\* taken one of them, and the 257th send_input, of b"\r", has completed and
\* stands last in the queue, which is full again.
C16_Witness ==
    /\ FirstPaneId \in DOMAIN input_q
    /\ writer_running[FirstPaneId]
    /\ sends = INPUT_QUEUE_CAPACITY + 1
    /\ last.op = "handle.send_input" /\ last.res = "Ok" /\ last.data = <<13>>
    /\ pty_written[FirstPaneId] = << <<104, 105>> >>
    /\ Len(input_q[FirstPaneId]) = INPUT_QUEUE_CAPACITY
    /\ input_q[FirstPaneId][INPUT_QUEUE_CAPACITY] = <<13>>

\* The areas recalculate_layout gives the panes of `order` under the expansion
\* state `exp`, `hexp` in the terminal area `ts`.
AreasFor(order, exp, hexp, ts) == AssignAreas(order, AllAreas(ts[1], exp, hexp))

\* After a step, with a terminal size set: cached_areas is what the new
\* pane_order and expansion state give, and the PTY of every live pane has
\* rows = height - 2 and cols = width - 2 of its rectangle, saturating at 0.
PtysFitAreas ==
    terminal_size' # None =>
        /\ cached_areas' = AreasFor(pane_order', expanded_positions', horizontal_expanded',
                                    terminal_size')
        /\ \A pane_id \in panes' :
              /\ pane_id \in DOMAIN cached_areas'
              /\ pty_size'[pane_id].rows =
                    (IF cached_areas'[pane_id].height >= 2
                     THEN cached_areas'[pane_id].height - 2 ELSE 0)
              /\ pty_size'[pane_id].cols =
                    (IF cached_areas'[pane_id].width >= 2
                     THEN cached_areas'[pane_id].width - 2 ELSE 0)

\* A step of an operation that recomputes the layout: a spawn that returns a
\* handle, close_pane, a set_terminal_size with a new size, a toggle of a slot
\* in 0..3 (it flips the slot's flag) or of a row in 0..1 (it changes the
\* row's state).
LayoutChanged ==
    \/ last'.op = "spawn" /\ last'.res = "Ok"
    \/ last'.op = "close_pane"
    \/ last'.op = "set_terminal_size" /\ terminal_size' # terminal_size
    \/ last'.op = "toggle_pane_expansion" /\ expanded_positions' # expanded_positions
    \/ last'.op = "toggle_horizontal_expansion" /\ horizontal_expanded' # horizontal_expanded

\* A step of one of the calls the claim C20 names, whatever it returns.
LayoutCalled ==
    \/ LayoutChanged
    \/ last'.op \in {"spawn", "toggle_pane_expansion", "toggle_horizontal_expansion"}

ParserSize(ts, pane_count) == calculate_initial_pane_size(ts, pane_count)

\* C19: after an operation that changes the layout, the size the emulator of
\* every live pane is configured with is the inner size of the pane's
\* rectangle, height - 2 rows and width - 2 columns; stated for the first
\* operation a pane lives through, the spawn that creates it, and the
\* emulator that spawn has just built.
C19_EmulatorFitsArea ==
    [][(last'.op = "spawn" /\ last'.res = "Ok" /\ terminal_size # None) =>
          \A pane_id \in panes' \ panes :
              ParserSize(terminal_size, Cardinality(panes)) =
                  [rows |-> cached_areas'[pane_id].height - 2,
                   cols |-> cached_areas'[pane_id].width - 2]]_vars

\* C21: toggle_horizontal_expansion(row, expand_left) with row 0 or 1 takes
\* the row from None to Some(expand_left), from Some(expand_left) to None and
\* from the other direction to Some(expand_left); the other row and the
\* vertical flags keep their values; with row >= 2 nothing changes.
C21_HorizontalToggleStateMachine ==
    [][last'.op = "toggle_horizontal_expansion" =>
          LET row == last'.arg
              expand_left == last'.data[2]
              current == IF row < 2 THEN horizontal_expanded[row + 1] ELSE None
          IN  /\ expanded_positions' = expanded_positions
              /\ row >= 2 => /\ horizontal_expanded' = horizontal_expanded
                             /\ UNCHANGED layoutVars
              /\ row < 2 =>
                    /\ horizontal_expanded'[2 - row] = horizontal_expanded[2 - row]
                    /\ current = <<>> => horizontal_expanded'[row + 1] = <<expand_left>>
                    /\ current = <<expand_left>> => horizontal_expanded'[row + 1] = <<>>
                    /\ current = <<~expand_left>> =>
                          horizontal_expanded'[row + 1] = <<expand_left>>]_vars

\* C21 witness: row 1 was expanded to the right and
\* toggle_horizontal_expansion(1, true) has switched it to the left; row 0
\* stays expanded to the right and slot 0 stays vertically expanded.
C21_Witness ==
    /\ last.op = "toggle_horizontal_expansion"
    /\ last.arg = 1
    /\ last.data[2] = TRUE
    /\ last.data[1].horizontal = <<Some(FALSE), Some(FALSE)>>
    /\ horizontal_expanded = <<Some(FALSE), Some(TRUE)>>
    /\ expanded_positions[1]

\* C22: for every slot i in 0..3 and every state of the manager, the second
\* of two toggle_pane_expansion(i) calls in a row leaves the expanded flags,
\* cached_areas, sub_pane_areas and the empty slots exactly as they were
\* before the first.
C22_VerticalToggleTwiceRestores ==
    [][(/\ last.op = "toggle_pane_expansion"
        /\ last'.op = "toggle_pane_expansion"
        /\ last'.arg = last.arg
        /\ last.arg < 4) => LayoutSnapshot' = last.data[1]]_vars

\* C22 witness: with a terminal size set and pane 1 in slot 0,
\* toggle_pane_expansion(0) was called twice in a row; the first call had
\* given the pane the full height, the second has given it back its own.
C22_Witness ==
    /\ last.op = "toggle_pane_expansion"
    /\ last.arg = 0
    /\ terminal_size = Some(Rect(0, 0, 80, 20))
    /\ 1 \in DOMAIN cached_areas
    /\ last.data[1].expanded[1]
    /\ last.data[1].areas[1].height = 20
    /\ ~expanded_positions[1]
    /\ cached_areas[1].height = 14
    /\ sub_pane_areas[1].width = 10

SlotRect(i) ==
    IF i < Len(pane_order) THEN cached_areas[pane_order[i + 1]]
    ELSE empty_pane_areas[i + 1 - Len(pane_order)].rect

\* C24: with a terminal size set, sub_pane_areas has exactly eight entries,
\* and for every primary slot i that is expanded the sub-panes 2i and 2i+1
\* are the zero rectangle (0,0,0,0).
C24_ExpandedSlotHidesSubPanes ==
    terminal_size # None =>
        /\ Len(sub_pane_areas) = 8
        /\ \A i \in 0..3 :
              expanded_positions[i + 1] =>
                  /\ sub_pane_areas[2 * i + 1] = [x |-> 0, y |-> 0, width |-> 0, height |-> 0]
                  /\ sub_pane_areas[2 * i + 2] = [x |-> 0, y |-> 0, width |-> 0, height |-> 0]

\* C24 witness: in an 80x20 terminal slots 0 and 3 are expanded; their
\* sub-panes 0, 1, 6 and 7 are zero and the sub-panes of slot 1 are not.
C24_Witness ==
    /\ terminal_size = Some(Rect(0, 0, 80, 20))
    /\ expanded_positions = <<TRUE, FALSE, FALSE, TRUE>>
    /\ horizontal_expanded = <<None, None>>
    /\ sub_pane_areas[1] = ZeroRect /\ sub_pane_areas[8] = ZeroRect
    /\ sub_pane_areas[3] = Rect(20, 13, 10, 7)
    /\ Len(sub_pane_areas) = 8

\* C25: with a terminal area A set, for every row r that is horizontally
\* expanded: the primary slot of the hidden half and both of its sub-panes
\* have width 0; the primary slot of the visible half has width A.width / 2
\* rounded down; and unless the visible slot is vertically expanded its two
\* sub-panes have width A.width / 4 rounded down each, the first at the left
\* edge of the half-row and the second next to it.
C25_HorizontalExpansionWidths ==
    terminal_size # None =>
        \A r \in 0..1 :
            horizontal_expanded[r + 1] # None =>
                LET A == terminal_size[1]
                    left == horizontal_expanded[r + 1][1]
                    visible == IF left THEN 2 * r ELSE 2 * r + 1
                    hidden == IF left THEN 2 * r + 1 ELSE 2 * r
                    edge == A.x + r * (A.width \div 2)
                IN  /\ SlotRect(hidden).width = 0
                    /\ sub_pane_areas[2 * hidden + 1].width = 0
                    /\ sub_pane_areas[2 * hidden + 2].width = 0
                    /\ SlotRect(visible).width = A.width \div 2
                    /\ ~expanded_positions[visible + 1] =>
                          /\ sub_pane_areas[2 * visible + 1].width = A.width \div 4
                          /\ sub_pane_areas[2 * visible + 2].width = A.width \div 4
                          /\ sub_pane_areas[2 * visible + 1].x = edge
                          /\ sub_pane_areas[2 * visible + 2].x = edge + A.width \div 4

\* C25 witness: in a terminal 11 wide at x = 2, row 1 is expanded to the
\* right: slot 2 is 0 wide, slot 3 is 5 wide, and the sub-panes 6 and 7 are 2
\* wide each, at x = 7 and x = 9.
C25_Witness ==
    /\ terminal_size = Some(Rect(2, 1, 11, 11))
    /\ horizontal_expanded = <<None, Some(FALSE)>>
    /\ expanded_positions = <<FALSE, FALSE, FALSE, FALSE>>
    /\ SlotRect(2).width = 0
    /\ SlotRect(3).width = 5
    /\ sub_pane_areas[7].x = 7 /\ sub_pane_areas[7].width = 2
    /\ sub_pane_areas[8].x = 9 /\ sub_pane_areas[8].width = 2

\* C29: with a terminal area A set and no row horizontally expanded, the
\* primary slots 0, 1 and 2 have width A.width / 4 rounded down and slot 3 has
\* A.width minus three times that, so the four widths add up to A.width.
C29_QuarterWidthsSumToWidth ==
    (terminal_size # None /\ horizontal_expanded = <<None, None>>) =>
        LET A == terminal_size[1]
        IN  /\ \A i \in 0..2 : SlotRect(i).width = A.width \div 4
            /\ SlotRect(3).width = A.width - 3 * (A.width \div 4)
            /\ SlotRect(0).width + SlotRect(1).width + SlotRect(2).width
                  + SlotRect(3).width = A.width

\* C29 witness: a terminal 11 wide, no row expanded: the slots are 2, 2, 2
\* and 5 wide.
C29_Witness ==
    /\ terminal_size = Some(Rect(2, 1, 11, 11))
    /\ horizontal_expanded = <<None, None>>
    /\ SlotRect(0).width = 2 /\ SlotRect(1).width = 2 /\ SlotRect(2).width = 2
    /\ SlotRect(3).width = 5
    /\ expanded_positions[4]

\* With N panes in pane_order: the keys of cached_areas are the ids of
\* pane_order, the i-th id holds the rectangle of primary slot i, and the
\* empty slots are the slots N..3, in that order, numbered N+1..4.
PanesFillSlotsFromLeft ==
    LET N == Len(pane_order)
        slots == AllAreas(terminal_size[1], expanded_positions, horizontal_expanded)
    IN  /\ DOMAIN cached_areas = {pane_order[i] : i \in 1..N}
        /\ \A i \in 1..N : cached_areas[pane_order[i]] = slots[i]
        /\ Len(empty_pane_areas) = 4 - N
        /\ \A k \in 1..(4 - N) :
              /\ empty_pane_areas[k].slot_index = N + k
              /\ empty_pane_areas[k].rect = slots[N + k]

\* C28: after every step that leaves a terminal size set, the panes of
\* pane_order fill the primary slots from the left and the remaining slots
\* are the empty slots; and a close_pane keeps the panes that survive in the
\* order they had, so that they move left into the slots 0..N-2.
C28_PanesFillSlotsInOrder ==
    [][terminal_size' # None =>
          /\ PanesFillSlotsFromLeft'
          /\ last'.op = "close_pane" =>
                pane_order' = SelectSeq(pane_order, LAMBDA id : id # last'.arg)]_vars

\* C28 witness: in an 80x20 terminal panes 1, 2 and 3 were live and pane 1
\* was closed: pane 2 is in slot 0, pane 3 in slot 1, and the slots numbered
\* 3 and 4 are empty.
C28_Witness ==
    /\ last.op = "close_pane"
    /\ last.arg = 1
    /\ terminal_size = Some(Rect(0, 0, 80, 20))
    /\ pane_order = <<2, 3>>
    /\ expanded_positions = <<FALSE, FALSE, FALSE, FALSE>>
    /\ horizontal_expanded = <<None, None>>
    /\ cached_areas = (2 :> Rect(0, 0, 20, 14)) @@ (3 :> Rect(20, 0, 20, 14))
    /\ empty_pane_areas = << [slot_index |-> 3, rect |-> Rect(40, 0, 20, 14)],
                             [slot_index |-> 4, rect |-> Rect(60, 0, 20, 14)] >>

\* C26: handle_click tries the up-arrows of the expanded primary slots
\* before anything else: a click that hits the up-arrow of an expanded slot
\* and lies inside the rectangle of the pane in that slot collapses the
\* slot, leaves the focus as it is and returns true.
C26_UpArrowCollapsesItsSlot ==
    [][\A c \in ClickPoints, i \in 0..3 :
          (/\ HandleClick(c[1], c[2])
           /\ i < Len(pane_order)
           /\ pane_order[i + 1] \in DOMAIN cached_areas
           /\ expanded_positions[i + 1]
           /\ ArrowHit(c[1], c[2], cached_areas[pane_order[i + 1]], i = 0 \/ i = 2)
           /\ Contains(cached_areas[pane_order[i + 1]], c[1], c[2]))
          => (/\ ~expanded_positions'[i + 1]
              /\ focused' = focused
              /\ last'.res = "true")]_vars

\* C27: a poll_events call returns the pending notifications in the order
\* they were enqueued, and at most 256 of them, the capacity of the event
\* queue, even while workers keep producing: the Vec a call builds never
\* holds more than 256 notifications.
C27_PollReturnsAtMostCapacity ==
    poll_vec # None => Len(poll_vec[1]) <= EVENT_QUEUE_CAPACITY

\* C30: the reader holds the screen's write lock only while it processes one
\* chunk and has released it when it sends the Output event, so a reader that
\* waits on a full event channel leaves screen_snapshot free to take the read
\* lock; and what a snapshot copied is a whole number of processed chunks, in
\* the order the reader read them.
C30_ReaderLocksOnlyWhileProcessing ==
    \A pane_id \in DOMAIN screen :
        /\ screen[pane_id].writer <=> reader_pc[pane_id].pc = "process"
        /\ screen[pane_id].partial => screen[pane_id].writer
        /\ (reader_pc[pane_id].pc = "send" /\ snapshot = None)
               => ENABLED ScreenSnapshotRead(pane_id)
        /\ (snapshot # None /\ snapshot[1].pane_id = pane_id)
               => /\ ~snapshot[1].partial
                  /\ snapshot[1].chunks = [i \in 1..Len(snapshot[1].chunks) |-> i]
                  /\ Len(snapshot[1].chunks) <= reader_pc[pane_id].reads
                  /\ ~screen[pane_id].writer

\* The reader waits on the full event channel with its 257th chunk processed
\* while a snapshot holding all 257 chunks is being taken.
C30_Witness ==
    /\ FirstPaneId \in DOMAIN reader_pc
    /\ reader_pc[FirstPaneId].pc = "send"
    /\ Len(event_q) = EVENT_QUEUE_CAPACITY
    /\ snapshot # None
    /\ Len(snapshot[1].chunks) = EVENT_QUEUE_CAPACITY + 1

\* CockpitWidget::infer_expanded_positions: a position counts as expanded when
\* its first sub-pane has zero width or zero height; a missing entry leaves
\* the position not expanded.
infer_expanded_positions(subs) ==
    [p \in 1..4 |->
        LET first_idx == (p - 1) * 2
        IN  IF first_idx + 1 \in DOMAIN subs
            THEN subs[first_idx + 1].width = 0 \/ subs[first_idx + 1].height = 0
            ELSE FALSE]

\* C31: in every layout the manager has computed, the painter infers slot i
\* to be expanded from the sub-pane rectangles exactly when
\* expanded_positions[i] is true.
C31_InferredExpansionMatchesManager ==
    Len(sub_pane_areas) = 8 =>
        \A p \in 1..4 :
            infer_expanded_positions(sub_pane_areas)[p] = expanded_positions[p]

\* C32: the initial size spawn computes for a new pane is the estimated pane
\* rectangle (the whole width for one pane, half of it for two, a quarter for
\* three or four; 70% of the height) less 2 in each dimension, never below 0.
C32_InitialSizeExcludesBorders ==
    [][(last'.op = "spawn" /\ last'.res = "Ok" /\ terminal_size # None) =>
          LET future_pane_count == Cardinality(panes) + 1
              estimated_width == IF future_pane_count = 1 THEN terminal_size[1].width
                                 ELSE IF future_pane_count = 2
                                 THEN terminal_size[1].width \div 2
                                 ELSE terminal_size[1].width \div 4
              estimated_height == PanesHeight(terminal_size[1].height)
          IN  calculate_initial_pane_size(terminal_size, Cardinality(panes)) =
                  PaneSize(SatSub(estimated_height, 2), SatSub(estimated_width, 2))]_vars

\* C33: calculate_areas returns one rectangle for each pane id of the tree
\* and nothing else; a single pane gets the whole area; in a split of two
\* panes the first gets round(extent * ratio) of the extent along the split
\* direction, the second starts where the first ends and gets the remainder,
\* and both keep the other extent; in every tree of distinct panes the
\* rectangles lie in the area, do not overlap and cover it.
C33_CalculateAreasPartitions ==
    last.op = "calculate_areas" =>
        LET tree == last.data[1]
            area == last.data[2]
            areas == last.data[3]
            Cells(r) == (r.x .. (r.x + r.width - 1)) \X (r.y .. (r.y + r.height - 1))
            leaf_count[t \in {tree} \cup (IF tree.kind = "Split"
                                           THEN {tree.first, tree.second} \cup
                                                (IF tree.second.kind = "Split"
                                                 THEN {tree.second.first, tree.second.second}
                                                 ELSE {})
                                           ELSE {})] ==
                IF t.kind = "Single" THEN 1
                ELSE IF t.second.kind = "Single" THEN 2 ELSE 3
        IN  /\ DOMAIN areas = pane_ids(tree)
            /\ tree.kind = "Single" => areas[tree.id] = area
            /\ (tree.kind = "Split" /\ tree.first.kind = "Single"
                  /\ tree.second.kind = "Single" /\ tree.first.id # tree.second.id) =>
                   LET first == areas[tree.first.id]
                       second == areas[tree.second.id]
                   IN  IF tree.direction = "Vertical"
                       THEN /\ first.width = (area.width * tree.ratio + 50) \div 100
                            /\ second.width = area.width - first.width
                            /\ first.x = area.x /\ second.x = first.x + first.width
                            /\ first.y = area.y /\ second.y = area.y
                            /\ first.height = area.height /\ second.height = area.height
                       ELSE /\ first.height = (area.height * tree.ratio + 50) \div 100
                            /\ second.height = area.height - first.height
                            /\ first.y = area.y /\ second.y = first.y + first.height
                            /\ first.x = area.x /\ second.x = area.x
                            /\ first.width = area.width /\ second.width = area.width
            /\ Cardinality(pane_ids(tree)) = leaf_count[tree] =>
                   /\ UNION {Cells(areas[id]) : id \in DOMAIN areas} = Cells(area)
                   /\ \A a, b \in DOMAIN areas :
                          a # b => Cells(areas[a]) \cap Cells(areas[b]) = {}

\* A three-pane tree, split top and bottom and then left and right at a
\* quarter, laid out in an area whose extents the ratios do not divide.
C33_Witness ==
    /\ last.op = "calculate_areas"
    /\ last.data[1] = Split("Horizontal", 50, Single(1),
                            Split("Vertical", 25, Single(2), Single(3)))
    /\ last.data[2] = Rect(2, 1, 10, 5)
    /\ last.data[3] = (1 :> Rect(2, 1, 10, 3)) @@ (2 :> Rect(2, 4, 3, 2))
                          @@ (3 :> Rect(5, 4, 7, 2))

\* C34: focused is None exactly when no pane is registered.
C34_FocusedUnlessRegistryEmpty ==
    (focused = None) <=> (panes = {})

\* C35: with no row horizontally expanded the four slot rectangles tile the
\* terminal area from left to right: slot 0 starts at A.x, every slot starts
\* where the one before it ends, and slot 3 ends at A.x + A.width.
C35_SlotsTileTheWidth ==
    (terminal_size # None /\ horizontal_expanded = <<None, None>>) =>
        LET A == terminal_size[1]
        IN  /\ SlotRect(0).x = A.x
            /\ \A i \in 1..3 : SlotRect(i).x = SlotRect(i - 1).x + SlotRect(i - 1).width
            /\ SlotRect(3).x + SlotRect(3).width = A.x + A.width

\* C36: for every slot that is vertically expanded there is a position in the
\* terminal area at which handle_click can collapse it.
C36_ExpandedSlotHasCollapsingClick ==
    terminal_size # None =>
        \A i \in 0..3 :
            expanded_positions[i + 1] =>
                \E x \in terminal_size[1].x .. (terminal_size[1].x + terminal_size[1].width),
                   y \in terminal_size[1].y .. (terminal_size[1].y + terminal_size[1].height) :
                    ENABLED (HandleClick(x, y) /\ ~expanded_positions'[i + 1])

\* C37: every Exited or Crashed event that is in the event channel or was
\* returned by the last poll_events finds the state of its pane already
\* terminal and matching (same exit code, same error); and a step puts at most
\* one such event of a pane into the channel, only when the pane's monitor
\* goes from sending to done, a monitor that is done staying done: so at most
\* one is ever emitted per pane id.
C37_StatePublishedBeforeEvent ==
    /\ [](\A e \in Range(event_q) \cup Range(polled) :
             /\ e.kind = "Exited" => State(e.pane_id) = Exited(e.code)
             /\ e.kind = "Crashed" => State(e.pane_id) = Crashed(e.signal, Some(e.error)))
    /\ [][\A pane_id \in DOMAIN monitor :
             LET Emitted(q) == Len(SelectSeq(q, LAMBDA e :
                                      IsTerminalEvent(e) /\ e.pane_id = pane_id))
             IN  /\ monitor[pane_id].pc = "done" => monitor'[pane_id].pc = "done"
                 /\ Emitted(event_q') > Emitted(event_q) =>
                        /\ Emitted(event_q') = Emitted(event_q) + 1
                        /\ monitor[pane_id].pc = "send"
                        /\ monitor'[pane_id].pc = "done"]_vars

\* The last poll_events returned the Exited event of pane 1 with the negative
\* code of a child killed by a signal, pane 2 is closed and its Crashed event
\* is still in the channel; both states match.
C37_Witness ==
    /\ Range(polled) = {ExitedEvent(1, AsI32(ExitCode(49152, 5)))}
    /\ State(1) = Exited(AsI32(ExitCode(49152, 5)))
    /\ 2 \in DOMAIN monitor /\ 2 \notin panes
    /\ event_q = <<CrashedEvent(2, None, "wait failed")>>
    /\ State(2).kind = "Crashed"

\* C38: a step changes expanded_positions or horizontal_expanded only as a
\* toggle_pane_expansion, a toggle_horizontal_expansion or a handle_click
\* that returns true; and after a close_pane every remaining pane whose slot
\* is expanded is laid out over the full height of the terminal area.
C38_ExpansionBelongsToSlots ==
    [][/\ (expanded_positions' # expanded_positions
            \/ horizontal_expanded' # horizontal_expanded) =>
              \/ last'.op \in {"toggle_pane_expansion", "toggle_horizontal_expansion"}
              \/ last'.op = "handle_click" /\ last'.res = "true"
       /\ last'.op \in {"spawn", "close_pane", "set_terminal_size", "set_focus",
                         "focus_next", "focus_prev", "send_input", "poll_events"} =>
              UNCHANGED <<expanded_positions, horizontal_expanded>>
       /\ (last'.op = "close_pane" /\ terminal_size' # None) =>
              \A i \in 1..Len(pane_order') :
                  (i <= 4 /\ expanded_positions'[i]) =>
                      cached_areas'[pane_order'[i]].height = terminal_size'[1].height]_vars

\* Pane 2 has shifted into slot 0, which was expanded while pane 1 held it,
\* and is laid out over the full height.
C38_Witness ==
    /\ last = Called("close_pane", 1, "Ok")
    /\ pane_order = <<2>>
    /\ expanded_positions[1]
    /\ terminal_size = Some(Rect(0, 0, 80, 20))
    /\ cached_areas[2].height = 20

\* C39: with a host that never polls, the notifications pending in the event
\* channel never stop a worker: a reader that has processed a chunk can
\* always complete its send and go on to the next read, and a monitor that
\* waits for the child can always publish the terminal state.
C39_PendingEventsNeverStopWorkers ==
    \A pane_id \in DOMAIN reader_pc :
        /\ (reader_running[pane_id] /\ reader_pc[pane_id].pc = "send") =>
               ENABLED ReaderSend(pane_id)
        /\ monitor[pane_id].pc = "wait" =>
               \A result \in WaitResults : ENABLED MonitorWait(pane_id, result)

\* C40: in every vector handle_click can give to up_arrow_at_position the
\* rectangle at index i is that of the pane in slot i, and the slot the
\* up-arrow test returns for a click does not depend on which of these
\* vectors it was given.
C40_UpArrowTestSeesPanesAtTheirSlots ==
    \A areas_vec \in SortedByX(cached_areas) :
        /\ \A k \in DOMAIN areas_vec : areas_vec[k].id = pane_order[k]
        /\ \A other \in SortedByX(cached_areas), c \in ClickPoints :
               up_arrow_at_position(c[1], c[2], areas_vec, expanded_positions)
                  = up_arrow_at_position(c[1], c[2], other, expanded_positions)

====
